---- MODULE Spec2Model ----
(***************************************************************************)
(* Model of the Vagon management example: the REST client (vagon_api.py,   *)
(* class VagonAPI) and the Flask routes of app.py that drive it, foremost  *)
(* the multipart upload handler upload_file.                               *)
(*                                                                         *)
(* A handler blocks on every remote call, so each handler is cut into one  *)
(* action per stretch of code between two blocking calls: the action that  *)
(* ends by sending a call, and the action that takes the call's outcome    *)
(* and runs the handler up to its next call or its return.                 *)
(***************************************************************************)
EXTENDS Integers, Sequences, FiniteSets, TLC

VARIABLES
    pc,          \* per request: where its handler stands
    route,       \* per request: the route that serves it
    request,     \* per request: what the route checks of it (JSON body, or files)
    file_size,   \* upload_file: len(file_content)
    content_type,\* upload_file: content_type
    file_id,     \* upload_file: create_result.get('id')
    upload_urls, \* upload_file: create_result.get('upload_urls', [])
    idx,         \* upload_file: i of the enumerate loop
    parts,       \* upload_file: parts
    trace,       \* per request: the remote calls it started and saw end, in order
    puts,        \* per request: the http_requests.put calls it made, in order
    api_log,     \* the VagonAPI._request invocations, in order
    wire,        \* the requests.request calls made by VagonAPI._request, in order
    now,         \* time.time() * 1000, truncated
    uuids,       \* how many uuid4 values have been drawn
    response     \* per request: the response of the handler, once it returned

vars == <<pc, route, request, file_size, content_type, file_id, upload_urls, idx, parts,
          trace, puts, api_log, wire, now, uuids, response>>

(***************************************************************************)
(* Bounds of the model.                                                    *)
(***************************************************************************)
MaxUrls == 3        \* the remote answers create_file with 0..MaxUrls URLs
MaxSizeUnits == 8   \* file sizes range over 0..MaxSizeUnits units of SizeUnit
MaxTicks == 1       \* the clock advances at most MaxTicks ms over a run
StartClock == 1000  \* the clock reading at the start, in ms

Reqs == {1, 2}      \* request slots
Serial == {1}       \* the slots in use when requests are served one at a time

(***************************************************************************)
(* Optional values (Python None against a value).                          *)
(***************************************************************************)
None == <<>>
Some(x) == <<x>>
IsNone(o) == o = <<>>
Get(o) == o[1]

(***************************************************************************)
(* JSON values, tagged by type; a dict is the sequence of its (key, value) *)
(* pairs in insertion order, as a Python dict keeps them.                  *)
(***************************************************************************)
JNull == [t |-> "null"]
JInt(n) == [t |-> "int", n |-> n]
JStr(s) == [t |-> "str", s |-> s]
JBool(b) == [t |-> "bool", b |-> b]
JList(xs) == [t |-> "list", xs |-> xs]
JDict(kv) == [t |-> "dict", kv |-> kv]

\* an exception raised in place of a value, named by its text
JRaise(exc) == [t |-> "raise", s |-> exc]

HasKey(d, k) == \E j \in 1..Len(d.kv) : d.kv[j][1] = k

\* dict.get(k, default)
DictGet(d, k, default) ==
    IF HasKey(d, k)
    THEN d.kv[CHOOSE j \in 1..Len(d.kv) : d.kv[j][1] = k][2]
    ELSE default

\* Python truthiness of a JSON value (None, 0, '', [], {} and False are falsy)
Truthy(v) ==
    CASE v.t = "null" -> FALSE
      [] v.t = "int"  -> v.n # 0
      [] v.t = "str"  -> v.s # ""
      [] v.t = "bool" -> v.b
      [] v.t = "list" -> v.xs # <<>>
      [] v.t = "dict" -> v.kv # <<>>

\* the string is one or more decimal digits
IsDecimal(s) ==
    /\ s # ""
    /\ \A j \in 1..Len(s) : \E d \in 0..9 : ToString(d) = SubSeq(s, j, j)

\* int(s) for a string of decimal digits
RECURSIVE ParseNat(_)
ParseNat(s) ==
    IF s = "" THEN 0
    ELSE 10 * ParseNat(SubSeq(s, 1, Len(s) - 1))
         + (CHOOSE d \in 0..9 : ToString(d) = SubSeq(s, Len(s), Len(s)))

\* str.lower(), for the letters that occur in "true" and "false"
RECURSIVE Lower(_)
Lower(s) ==
    IF s = "" THEN ""
    ELSE LET c == SubSeq(s, 1, 1)
             upper == "TRUEFALS"
             lower == "truefals"
             at == {j \in 1..Len(upper) : SubSeq(upper, j, j) = c}
         IN  (IF at = {} THEN c
              ELSE LET j == CHOOSE k \in at : TRUE IN SubSeq(lower, j, j))
             \o Lower(SubSeq(s, 2, Len(s)))

\* json.dumps of a str escapes the quote and the backslash
RECURSIVE JsonEscape(_)
JsonEscape(s) ==
    IF s = "" THEN ""
    ELSE LET c == SubSeq(s, 1, 1)
         IN  (IF c = "\"" THEN "\\\"" ELSE IF c = "\\" THEN "\\\\" ELSE c)
             \o JsonEscape(SubSeq(s, 2, Len(s)))

\* str(v) of an f-string, for the values that occur in paths and messages
PyStr(v) ==
    CASE v.t = "null" -> "None"
      [] v.t = "int"  -> ToString(v.n)
      [] v.t = "str"  -> v.s
      [] v.t = "bool" -> (IF v.b THEN "True" ELSE "False")

RECURSIVE JsonDumps(_)
RECURSIVE JsonItems(_)
RECURSIVE JsonPairs(_)

\* the elements of a list, rendered and joined by ", "
JsonItems(xs) ==
    IF xs = <<>> THEN ""
    ELSE JsonDumps(Head(xs))
         \o (IF Tail(xs) = <<>> THEN "" ELSE ", " \o JsonItems(Tail(xs)))

\* the pairs of a dict, rendered "key": value and joined by ", "
JsonPairs(kv) ==
    IF kv = <<>> THEN ""
    ELSE "\"" \o Head(kv)[1] \o "\": " \o JsonDumps(Head(kv)[2])
         \o (IF Tail(kv) = <<>> THEN "" ELSE ", " \o JsonPairs(Tail(kv)))

\* json.dumps(v) with the default separators
JsonDumps(v) ==
    CASE v.t = "null" -> "null"
      [] v.t = "int"  -> ToString(v.n)
      [] v.t = "str"  -> "\"" \o JsonEscape(v.s) \o "\""
      [] v.t = "bool" -> (IF v.b THEN "true" ELSE "false")
      [] v.t = "list" -> "[" \o JsonItems(v.xs) \o "]"
      [] v.t = "dict" -> "{" \o JsonPairs(v.kv) \o "}"

(***************************************************************************)
(* The client: class VagonAPI of vagon_api.py.                             *)
(***************************************************************************)
\* api_client = VagonAPI(api_key=..., api_secret=..., base_url=...)
Credential == [api_key |-> "KEY", api_secret |-> "SECRET"]
BaseUrl == "https://api.vagon.io"

\* hmac.new(key, msg, sha256).hexdigest(): a digest that names its key and message,
\* so that two digests are equal only for the same key and message
HmacSha256Hex(key, msg) == "hmac<" \o key \o "|" \o msg \o ">"

\* SignatureString with the nonce put before the timestamp
SignatureStringNonceFirst(cred, method, path, timestamp, nonce, body) ==
    cred.api_key \o method \o path \o nonce \o timestamp \o body

\* SignatureString without the method
SignatureStringNoMethod(cred, method, path, timestamp, nonce, body) ==
    cred.api_key \o path \o timestamp \o nonce \o body

\* SignatureString without the body
SignatureStringNoBody(cred, method, path, timestamp, nonce, body) ==
    cred.api_key \o method \o path \o timestamp \o nonce

\* VagonAPI._generate_hmac_signature: the string that is signed
SignatureString(cred, method, path, timestamp, nonce, body) ==
    cred.api_key \o method \o path \o timestamp \o nonce \o body

GenerateHmacSignature(cred, method, path, timestamp, nonce, body) ==
    HmacSha256Hex(cred.api_secret,
                  SignatureString(cred, method, path, timestamp, nonce, body))

\* Uuid4 giving the same value at every draw
Uuid4Constant(k) == "uuid0"

\* str(uuid.uuid4()) for the k-th value drawn
Uuid4(k) == "uuid" \o ToString(k)

\* VagonAPI._generate_auth_header, given the nonce and the clock reading it draws
GenerateAuthHeader(cred, method, path, body, nonce, timestamp) ==
    "HMAC " \o cred.api_key \o ":"
        \o GenerateHmacSignature(cred, method, path, timestamp, nonce, body)
        \o ":" \o nonce \o ":" \o timestamp

\* `if body` for body: Optional[Dict]
BodyGiven(body) == ~IsNone(body) /\ Truthy(Get(body))

\* BodyStr as json.dumps(body) if body is not None else ''
BodyStrUnlessNone(body) == IF IsNone(body) THEN "" ELSE JsonDumps(Get(body))

\* body_str = json.dumps(body) if body else ''
BodyStr(body) == IF BodyGiven(body) THEN JsonDumps(Get(body)) ELSE ""

\* headers = {"Authorization": ...}; Content-Type only `if body`
RequestHeaders(auth_header, body) ==
    [Authorization |-> auth_header,
     ContentType |-> IF BodyGiven(body) THEN Some("application/json") ELSE None]

\* data=body_str if body_str else None
RequestData(body_str) == IF body_str # "" THEN Some(body_str) ELSE None

\* urllib's urlencode of the query parameters: k=v joined by &
RECURSIVE UrlEncode(_)
UrlEncode(kv) ==
    IF kv = <<>> THEN ""
    ELSE Head(kv)[1] \o "=" \o PyStr(Head(kv)[2])
         \o (IF Tail(kv) = <<>> THEN "" ELSE "&" \o UrlEncode(Tail(kv)))

\* HttpRequest signing the path together with its query string
HttpRequestSignsQuery(cred, method, path, params, body, nonce, timestamp) ==
    LET body_str == BodyStr(body)
        full_path == IF IsNone(params) THEN path
                     ELSE path \o "?" \o UrlEncode(Get(params).kv)
        auth_header == GenerateAuthHeader(cred, method, full_path, body_str, nonce,
                                          timestamp)
    IN  [method |-> method,
         url |-> BaseUrl \o path,
         headers |-> RequestHeaders(auth_header, body),
         params |-> params,
         data |-> RequestData(body_str),
         nonce |-> nonce,
         timestamp |-> timestamp]

\* the requests.request(...) call of VagonAPI._request
HttpRequest(cred, method, path, params, body, nonce, timestamp) ==
    LET body_str == BodyStr(body)
        auth_header == GenerateAuthHeader(cred, method, path, body_str, nonce, timestamp)
    IN  [method |-> method,
         url |-> BaseUrl \o path,
         headers |-> RequestHeaders(auth_header, body),
         params |-> params,
         data |-> RequestData(body_str),
         nonce |-> nonce,
         timestamp |-> timestamp]

\* RequestsIssued sending the request a second time
RequestsIssuedTwice(cred, method, path, params, body, nonce, timestamp) ==
    << HttpRequest(cred, method, path, params, body, nonce, timestamp),
       HttpRequest(cred, method, path, params, body, nonce, timestamp) >>

\* The requests.request calls one VagonAPI._request invocation makes
RequestsIssued(cred, method, path, params, body, nonce, timestamp) ==
    << HttpRequest(cred, method, path, params, body, nonce, timestamp) >>

\* VagonAPI._request up to and including the blocking requests.request call,
\* made on behalf of request r
SendRequest(r, method, path, params, body) ==
    \E t \in now..(IF now < StartClock + MaxTicks THEN now + 1 ELSE now) :
        /\ now' = t
        /\ uuids' = uuids + 1
        /\ api_log' = Append(api_log, [by |-> r, method |-> method, path |-> path,
                                       params |-> params, body |-> body])
        /\ wire' = wire \o RequestsIssued(Credential, method, path, params, body,
                                          Uuid4(uuids + 1), ToString(t))

(***************************************************************************)
(* The public methods of VagonAPI: the _request call each of them makes.   *)
(***************************************************************************)
V1 == "/organization-management/v1"

Endpoint(name, method, path, params, body) ==
    [name |-> "VagonAPI." \o name, method |-> method, path |-> path,
     params |-> params, body |-> body]

\* {'page': page, 'per_page': per_page}, and 'q' `if query`
PageParams(page, per_page, query) ==
    JDict(<< <<"page", JInt(page)>>, <<"per_page", JInt(per_page)>> >>
          \o (IF query # "" THEN << <<"q", JStr(query)>> >> ELSE <<>>))

\* {'parent_id': parent_id, 'page': page, 'per_page': per_page}, and 'q' `if query`
FileParams(parent_id, page, per_page, query) ==
    JDict(<< <<"parent_id", JInt(parent_id)>>, <<"page", JInt(page)>>,
             <<"per_page", JInt(per_page)>> >>
          \o (IF query # "" THEN << <<"q", JStr(query)>> >> ELSE <<>>))

\* the methods on machines (and their deprecated seat aliases), called for
\* machine 456 with the defaults of their optional arguments, or with the
\* argument given
MachineEndpoints ==
    { Endpoint("list_machines", "GET", V1 \o "/machines",
               Some(PageParams(1, 20, "")), None),
      Endpoint("list_machines", "GET", V1 \o "/machines",
               Some(PageParams(2, 20, "dev")), None),
      Endpoint("list_seats", "GET", V1 \o "/machines",
               Some(PageParams(1, 20, "")), None),
      Endpoint("get_seat", "GET", V1 \o "/seats/" \o ToString(456), None, None),
      Endpoint("list_machine_content", "POST",
               V1 \o "/machines/" \o ToString(456) \o "/list-content", None,
               Some(JDict(<< <<"path", JStr("/home/user")>> >>))),
      Endpoint("list_seat_content", "POST",
               V1 \o "/machines/" \o ToString(456) \o "/list-content", None,
               Some(JDict(<< <<"path", JStr("/home/user")>> >>))),
      Endpoint("get_machine_files", "GET",
               V1 \o "/machines/" \o ToString(456) \o "/files",
               Some(FileParams(0, 1, 20, "")), None),
      Endpoint("get_seat_files", "GET",
               V1 \o "/machines/" \o ToString(456) \o "/files",
               Some(FileParams(0, 1, 20, "doc")), None),
      Endpoint("get_machine", "GET", V1 \o "/machines/" \o ToString(456), None, None),
      Endpoint("start_machine", "POST",
               V1 \o "/machines/" \o ToString(456) \o "/start", None, None),
      Endpoint("start_machine", "POST",
               V1 \o "/machines/" \o ToString(456) \o "/start", None,
               Some(JDict(<< <<"machine_type_id", JInt(5)>>,
                             <<"region", JStr("dublin")>> >>))),
      Endpoint("stop_machine", "POST",
               V1 \o "/machines/" \o ToString(456) \o "/stop", None,
               Some(JDict(<< <<"gracefully", JBool(TRUE)>> >>))),
      Endpoint("reset_machine", "POST",
               V1 \o "/machines/" \o ToString(456) \o "/reset", None, None),
      Endpoint("create_machine_access", "POST",
               V1 \o "/machines/" \o ToString(456) \o "/access", None,
               Some(JDict(<< <<"expires_in", JInt(3600)>> >>))),
      Endpoint("get_machine_available_machine_types", "GET",
               V1 \o "/machines/" \o ToString(456) \o "/available-machine-types",
               None, None),
      Endpoint("get_seat_available_machine_types", "GET",
               V1 \o "/machines/" \o ToString(456) \o "/available-machine-types",
               None, None),
      Endpoint("set_machine_type", "POST",
               V1 \o "/machines/" \o ToString(456) \o "/machine-type", None,
               Some(JDict(<< <<"machine_type_id", JInt(5)>> >>))),
      Endpoint("create_machine", "POST", V1 \o "/machines", None,
               Some(JDict(<< <<"plan_id", JInt(3)>>, <<"quantity", JInt(1)>> >>))),
      Endpoint("create_seat", "POST", V1 \o "/machines", None,
               Some(JDict(<< <<"plan_id", JInt(3)>>, <<"quantity", JInt(2)>>,
                             <<"base_image_id", JInt(123)>> >>))),
      Endpoint("get_permission_fields", "GET", V1 \o "/machines/permission-fields",
               None, None) }

\* the methods on files, called for file 789
FileEndpoints ==
    { Endpoint("list_files", "GET", V1 \o "/files",
               Some(FileParams(0, 1, 20, "")), None),
      Endpoint("create_directory", "POST", V1 \o "/files", None,
               Some(JDict(<< <<"file_name", JStr("docs")>>,
                             <<"object_type", JStr("directory")>>,
                             <<"parent_id", JInt(0)>> >>))),
      Endpoint("create_file", "POST", V1 \o "/files", None,
               Some(JDict(<< <<"file_name", JStr("a.bin")>>,
                             <<"object_type", JStr("file")>>,
                             <<"parent_id", JInt(0)>>,
                             <<"content_type", JStr("text/plain")>>,
                             <<"size", JInt(1)>>,
                             <<"chunk_size", JInt(250)>>,
                             <<"overwrite", JBool(FALSE)>> >>))),
      Endpoint("complete_upload", "POST",
               V1 \o "/files/" \o ToString(789) \o "/complete", None,
               Some(JDict(<< <<"parts", JList(<<>>)>> >>))),
      Endpoint("get_download_url", "GET",
               V1 \o "/files/" \o ToString(789) \o "/download", None, None),
      Endpoint("delete_file", "DELETE", V1 \o "/files/" \o ToString(789), None, None),
      Endpoint("get_capacity", "GET", V1 \o "/files/capacity", None, None),
      Endpoint("get_capacity", "GET", V1 \o "/files/capacity",
               Some(JDict(<< <<"machine_id", JInt(456)>> >>)), None) }

\* the methods on activity logs, software and images, called for image 123
OtherEndpoints ==
    { Endpoint("list_user_action_logs", "GET", V1 \o "/user-action-logs",
               Some(JDict(<< <<"start_date", JStr("2026-01-01")>>,
                             <<"end_date", JStr("2026-01-31")>>,
                             <<"action_type", JStr("login")>> >>)), None),
      Endpoint("get_archived_user_action_logs_urls", "GET",
               V1 \o "/user-action-logs/archived-download-urls",
               Some(JDict(<< <<"start_date", JStr("2026-01-01")>>,
                             <<"end_date", JStr("2026-01-31")>>,
                             <<"expires_in", JInt(600)>> >>)), None),
      Endpoint("list_softwares", "GET", V1 \o "/software", None, None),
      Endpoint("list_images", "GET", V1 \o "/images",
               Some(PageParams(1, 20, "")), None),
      Endpoint("get_image", "GET", V1 \o "/images/" \o ToString(123), None, None),
      Endpoint("install_image", "POST", V1 \o "/images/install", None, None),
      Endpoint("install_image", "POST", V1 \o "/images/install", None,
               Some(JDict(<< <<"name", JStr("n")>> >>))),
      Endpoint("create_image", "POST", V1 \o "/images", None,
               Some(JDict(<< <<"machine_id", JInt(456)>> >>))),
      Endpoint("assign_image", "POST",
               V1 \o "/images/" \o ToString(123) \o "/assign", None,
               Some(JDict(<< <<"machine_ids", JList(<< JInt(456) >>)>> >>))),
      Endpoint("delete_image", "DELETE", V1 \o "/images/" \o ToString(123),
               None, None) }

Endpoints == MachineEndpoints \cup FileEndpoints \cup OtherEndpoints

\* the names under which the client is called directly, not through a route
ClientMethods == {"_request"} \cup {e.name : e \in Endpoints}

(***************************************************************************)
(* Responses of the remote API: a status code and a body that either       *)
(* parses as JSON (kind "json") or is raw text (kind "text", '' = empty).  *)
(***************************************************************************)
JsonResponse(status, v) == [status_code |-> status, kind |-> "json", json |-> v, text |-> ""]
TextResponse(status, s) == [status_code |-> status, kind |-> "text", json |-> JNull, text |-> s]

\* requests.request raised instead of returning a response
TransportError(msg) == [status_code |-> 0, kind |-> "exception", json |-> JNull, text |-> msg]

\* requests.Response.ok: raise_for_status() raises for 400 <= status < 600
ResponseOk(resp) == ~(400 <= resp.status_code /\ resp.status_code < 600)

\* response_json = response.json() if response.content else {}; {} on JSONDecodeError
ResponseJson(resp) == IF resp.kind = "json" THEN resp.json ELSE JDict(<<>>)

IsSpace(c) == c \in {" ", "\n", "\t", "\r"}

RECURSIVE LStrip(_)
LStrip(s) ==
    IF Len(s) > 0 /\ IsSpace(SubSeq(s, 1, 1)) THEN LStrip(SubSeq(s, 2, Len(s))) ELSE s

RECURSIVE RStrip(_)
RStrip(s) ==
    IF Len(s) > 0 /\ IsSpace(SubSeq(s, Len(s), Len(s)))
    THEN RStrip(SubSeq(s, 1, Len(s) - 1)) ELSE s

\* Strip that strips the left end only
StripLeftOnly(s) == LStrip(s)

\* str.strip()
Strip(s) == LStrip(RStrip(s))

\* VagonAPI._parse_error_response: (error_message, client_code) as JSON values
ParseErrorResponse(resp) ==
    IF resp.kind = "json"
    THEN [message |-> DictGet(resp.json, "message",
                              DictGet(resp.json, "error", JStr("Unknown error"))),
          client_code |-> DictGet(resp.json, "client_code", JInt(resp.status_code))]
    ELSE LET error_text == IF resp.text # "" THEN Strip(resp.text) ELSE ""
         IN  [message |-> JStr(IF error_text = ""
                               THEN "HTTP " \o ToString(resp.status_code)
                                        \o " - No response body"
                               ELSE error_text),
              client_code |-> JInt(resp.status_code)]

\* VagonAPIError with client_code always the status code
VagonAPIErrorStatusOnly(status_code, message, client_code) ==
    [status_code |-> status_code, message |-> message,
     client_code |-> JInt(status_code)]

\* VagonAPIError.__init__: client_code or status_code
VagonAPIError(status_code, message, client_code) ==
    [status_code |-> status_code,
     message |-> message,
     client_code |-> IF Truthy(client_code) THEN client_code ELSE JInt(status_code)]

\* VagonAPI._request from the return of requests.request on: the parsed JSON,
\* or the exception that leaves it (the VagonAPIError it raises, the exception
\* of requests.request, which it does not catch, or the AttributeError of
\* error_data.get for an error body that is JSON but not an object)
RequestOutcome(resp) ==
    IF resp.kind = "exception"
    THEN [raised |-> TRUE, exc |-> "ConnectionError",
          error |-> VagonAPIError(0, JStr(resp.text), JNull),
          value |-> JNull]
    ELSE IF ~ResponseOk(resp) /\ resp.kind = "json" /\ resp.json.t # "dict"
    THEN [raised |-> TRUE, exc |-> "AttributeError",
          error |-> VagonAPIError(0, JStr("object has no attribute 'get'"), JNull),
          value |-> JNull]
    ELSE IF ~ResponseOk(resp)
    THEN LET e == ParseErrorResponse(resp)
         IN  [raised |-> TRUE, exc |-> "VagonAPIError",
              error |-> VagonAPIError(resp.status_code, e.message, e.client_code),
              value |-> JNull]
    ELSE [raised |-> FALSE, exc |-> "",
          error |-> VagonAPIError(0, JNull, JNull),
          value |-> ResponseJson(resp)]

\* what the remote API may answer with when it rejects a call
ErrorResponses ==
    { JsonResponse(402, JDict(<< <<"message", JStr("Not enough funds")>>,
                                 <<"client_code", JInt(480)>> >>)),
      JsonResponse(404, JDict(<< <<"error", JStr("Not found")>> >>)),
      TextResponse(502, " Bad Gateway\n"),
      TextResponse(500, ""),
      TransportError("Connection refused") }

(***************************************************************************)
(* The web application: app.py.                                            *)
(***************************************************************************)
\* jsonify(body), status
Reply(status, body) == [status |-> status, body |-> body]

\* handle_api_errors, for a route under /api/: the envelope of a VagonAPIError
ApiErrorReply(e) ==
    Reply(e.status_code,
          JDict(<< <<"error", e.message>>,
                   <<"client_code", e.client_code>>,
                   <<"status_code", JInt(e.status_code)>> >>))

\* handle_api_errors, for a route under /api/: the envelope of any other exception
ExceptionReply(exc) ==
    Reply(500, JDict(<< <<"error", JStr(exc.s)>>, <<"client_code", JInt(500)>>,
                        <<"status_code", JInt(500)>> >>))

\* the routes that render a page: their path does not start with /api/
PageRoutes == {"index"}

\* handle_api_errors, for a page route: flash(...) and a redirect
RedirectReply == Reply(302, JStr("redirect"))

\* handle_api_errors re-raises any other exception of a page route: the
\* framework answers 500
UnhandledReply == Reply(500, JStr("Internal Server Error"))

\* what becomes of an exception that is no VagonAPIError, raised in a route
Uncaught(name, exc) ==
    IF name \in PageRoutes THEN UnhandledReply ELSE ExceptionReply(exc)

\* what becomes of the exception a client call raised: the envelope of
\* handle_api_errors for a route, the exception itself for a direct call
RaisedReply(name, out) ==
    IF name \in ClientMethods THEN Reply(0, JRaise(out.exc))
    ELSE IF out.exc = "VagonAPIError"
    THEN (IF name \in PageRoutes THEN RedirectReply ELSE ApiErrorReply(out.error))
    ELSE Uncaught(name, JRaise(out.error.message.s))

\* One entry of a request's trace: a remote call started, or seen to end.
\* ok: the call ended without an exception and with a successful status.
Started(op, i) == [ev |-> "start", op |-> op, idx |-> i, ok |-> FALSE, etag |-> None]
Ended(op, i, ok, etag) == [ev |-> "end", op |-> op, idx |-> i, ok |-> ok, etag |-> etag]

(***************************************************************************)
(* upload_file                                                             *)
(***************************************************************************)
\* chunk_size = 250 * 1024 * 1024
chunk_size == 250 * 1024 * 1024

\* create_file(..., chunk_size: int = 250, ...): the chunk size in MB sent to the remote
CreateFileChunkSizeMB == 250

MiB == 1024 * 1024
SizeUnit == 100 * MiB

\* the file sizes tried: multiples of 100 MiB, and sizes next to a chunk boundary
FileSizes ==
    {u * SizeUnit : u \in 0..MaxSizeUnits} \cup {1, chunk_size - 1, chunk_size + 1}

Min(a, b) == IF a < b THEN a ELSE b
Max(a, b) == IF a > b THEN a ELSE b

\* file_content[start:end] for a content of length len: the bytes at offsets
\* lo..hi-1 (an empty slice has lo = hi)
Slice(len, start, end) ==
    LET lo == Min(Max(start, 0), len)
        hi == Max(lo, Min(Max(end, 0), len))
    IN  [lo |-> lo, hi |-> hi]

\* Chunk with end = min(chunk_size, file_size): the offset of the chunk forgotten
ChunkEndNotOffset(i, size) ==
    Slice(size, i * chunk_size, Min(chunk_size, size))

\* the chunk of loop index i: start = i * chunk_size,
\* end = min(start + chunk_size, file_size), chunk = file_content[start:end]
Chunk(i, size) ==
    LET start == i * chunk_size
        end == Min(start + chunk_size, size)
    IN  Slice(size, start, end)

\* VagonAPI.create_file: the body it builds
CreateFileBody(name, parent_id, ctype, size, machine_id) ==
    JDict(<< <<"file_name", JStr(name)>>,
             <<"object_type", JStr("file")>>,
             <<"parent_id", JInt(parent_id)>>,
             <<"content_type", JStr(ctype)>>,
             <<"size", JInt(size)>>,
             <<"chunk_size", JInt(CreateFileChunkSizeMB)>>,
             <<"overwrite", JBool(FALSE)>> >>
          \o (IF IsNone(machine_id) THEN <<>>
              ELSE << <<"machine_id", JInt(Get(machine_id))>> >>))

\* VagonAPI.complete_upload: its path and body
CompleteUploadPath(fid) ==
    "/organization-management/v1/files/" \o PyStr(fid) \o "/complete"

CompleteUploadBody(ps) == JDict(<< <<"parts", JList(ps)>> >>)

\* parts.append({'part_number': i + 1, 'etag': etag})
PartRecord(i, etag) ==
    JDict(<< <<"part_number", JInt(i + 1)>>, <<"etag", JStr(etag)>> >>)

\* the http_requests.put call for loop index i
PutRequest(urls, i, size, ctype) ==
    [url |-> urls[i + 1].s, idx |-> i, chunk |-> Chunk(i, size), content_type |-> ctype]

\* the presigned URLs the remote makes up for a file: one per part, all different
UrlList(n) == JList([k \in 1..n |-> JStr("https://s3/part" \o ToString(k))])

\* the file id the remote gives the file it creates on the n-th call it receives
RemoteFileId(n) == 100 + n

\* the last _request invocation made on behalf of request r: the one it waits for
LastCallOf(r) ==
    CHOOSE j \in 1..Len(api_log) :
        api_log[j].by = r /\ \A k \in (j + 1)..Len(api_log) : api_log[k].by # r

\* what the remote may answer to the create_file call that is the call-th it
\* received
CreateFileResponses(call) ==
    ErrorResponses
    \cup { JsonResponse(200, JDict(<< <<"id", JInt(RemoteFileId(call))>>,
                                      <<"upload_urls", UrlList(n)>> >>))
           : n \in 0..MaxUrls }
    \cup { JsonResponse(200, JDict(<< <<"id", JInt(RemoteFileId(call))>> >>)),
           TextResponse(200, "") }

\* what the remote may answer to complete_upload
CompleteUploadResponses ==
    ErrorResponses
    \cup { JsonResponse(200, JDict(<< <<"uid", JStr("uid-1")>>,
                                      <<"download_url", JStr("https://dl/1")>> >>)),
           TextResponse(200, "") }

\* how a PUT to a presigned URL may end: an exception of the transport, or a
\* response with a status, a text and possibly an ETag header
PutException(msg) == [kind |-> "exception", status_code |-> 0, text |-> msg, etag |-> None]
PutResponse(status, text, etag) ==
    [kind |-> "response", status_code |-> status, text |-> text, etag |-> etag]

PutOutcomes ==
    { PutException("Connection aborted"),
      PutResponse(403, "AccessDenied", None),
      PutResponse(200, "", None),
      PutResponse(200, "", Some("\"e1\"")),
      PutResponse(200, "", Some("\"e2\"")) }

\* NoUploadUrls as `if upload_urls is None`
NoUploadUrlsNoneOnly(urls) == urls = JNull

\* `if not upload_urls`
NoUploadUrls(urls) == ~Truthy(urls)

\* PutFailed without the `if not response.ok` check
PutFailedExceptionOnly(out) == out.kind = "exception"

\* PutFailed without the try/except around the PUT
PutFailedStatusOnly(out) == ~ResponseOk(out)

\* PutFailed that also takes a response without an ETag for a failure
PutFailedOrNoEtag(out) ==
    \/ out.kind = "exception"
    \/ ~ResponseOk(out)
    \/ IsNone(out.etag)
    \/ Get(out.etag) = ""

\* the PUT raised, or `not response.ok`
PutFailed(out) == out.kind = "exception" \/ ~ResponseOk(out)

\* etag = response.headers.get('ETag'); `if etag`
EtagGiven(out) == ~IsNone(out.etag) /\ Get(out.etag) # ""

\* ChunkErrorText naming the chunk by its 0-based index
ChunkErrorTextZeroBased(i, detail) ==
    "Failed to upload chunk " \o ToString(i) \o ": " \o detail

\* the error text of a failed chunk: f'Failed to upload chunk {i + 1}: {...}'
ChunkErrorText(i, detail) ==
    "Failed to upload chunk " \o ToString(i + 1) \o ": " \o detail

\* jsonify({'error': msg, 'client_code': code}), code
ErrorReply(msg, code) ==
    Reply(code, JDict(<< <<"error", JStr(msg)>>, <<"client_code", JInt(code)>> >>))

\* the loop index that follows i in enumerate(upload_urls)
NextIndex(i) == i + 1

\* request.files, request.form of an upload request
UploadInputs ==
    [has_file : BOOLEAN, filename : {"", "a.bin"}, size : FileSizes,
     content_type : {"", "text/plain"}, machine_id : {None, Some(5)}]

\* request.files of an upload request, as a mapping from the part's name to
\* its filename
UploadFiles(in) ==
    IF in.has_file THEN JDict(<< <<"file", JStr(in.filename)>> >>) ELSE JDict(<<>>)

\* upload_file from its start to the create_file call (or to its early return)
UploadFile(r) ==
    /\ pc[r] = "idle"
    /\ \E in \in UploadInputs :
        /\ request' = [request EXCEPT ![r] = UploadFiles(in)]
        /\ IF ~in.has_file
           THEN /\ response' = [response EXCEPT ![r] =
                       Some(ErrorReply("No file provided", 400))]
                /\ pc' = [pc EXCEPT ![r] = "done"]
                /\ UNCHANGED <<file_size, content_type, trace, api_log, wire, now, uuids>>
           ELSE IF in.filename = ""
           THEN /\ response' = [response EXCEPT ![r] =
                       Some(ErrorReply("No file selected", 400))]
                /\ pc' = [pc EXCEPT ![r] = "done"]
                /\ UNCHANGED <<file_size, content_type, trace, api_log, wire, now, uuids>>
           ELSE LET ctype == IF in.content_type # "" THEN in.content_type
                             ELSE "application/octet-stream"
                IN  /\ file_size' = [file_size EXCEPT ![r] = in.size]
                    /\ content_type' = [content_type EXCEPT ![r] = ctype]
                    /\ SendRequest(r, "POST", "/organization-management/v1/files", None,
                                   Some(CreateFileBody(in.filename, 0, ctype, in.size,
                                                       in.machine_id)))
                    /\ trace' = [trace EXCEPT ![r] = Append(@, Started("create_file", 0))]
                    /\ pc' = [pc EXCEPT ![r] = "create_file"]
                    /\ UNCHANGED response
    /\ route' = [route EXCEPT ![r] = "upload_file"]
    /\ UNCHANGED <<file_id, upload_urls, idx, parts, puts>>

\* UploadLoop with one parts list for all requests (a list of the module, not
\* of the call)
UploadLoopSharedParts(r, i, urls, fid, ps, seen) ==
    /\ parts' = [q \in Reqs |-> ps]
    /\ IF i < Len(urls)
       THEN /\ idx' = [idx EXCEPT ![r] = i]
            /\ puts' = [puts EXCEPT ![r] =
                   Append(@, PutRequest(urls, i, file_size[r], content_type[r]))]
            /\ trace' = [trace EXCEPT ![r] = @ \o seen \o << Started("put", i) >>]
            /\ pc' = [pc EXCEPT ![r] = "put"]
            /\ UNCHANGED <<response, api_log, wire, now, uuids>>
       ELSE /\ SendRequest(r, "POST", CompleteUploadPath(fid), None,
                           Some(CompleteUploadBody(ps)))
            /\ trace' = [trace EXCEPT ![r] = @ \o seen \o << Started("complete_upload", 0) >>]
            /\ pc' = [pc EXCEPT ![r] = "complete_upload"]
            /\ UNCHANGED <<idx, puts, response>>

\* The loop `for i, upload_url in enumerate(upload_urls)` entered at index i with
\* the parts ps collected so far, after the events seen: the PUT of chunk i when
\* there is an i-th URL, the complete_upload call when the loop is over
UploadLoop(r, i, urls, fid, ps, seen) ==
    /\ parts' = [parts EXCEPT ![r] = ps]
    /\ IF i < Len(urls)
       THEN /\ idx' = [idx EXCEPT ![r] = i]
            /\ puts' = [puts EXCEPT ![r] =
                   Append(@, PutRequest(urls, i, file_size[r], content_type[r]))]
            /\ trace' = [trace EXCEPT ![r] = @ \o seen \o << Started("put", i) >>]
            /\ pc' = [pc EXCEPT ![r] = "put"]
            /\ UNCHANGED <<response, api_log, wire, now, uuids>>
       ELSE /\ SendRequest(r, "POST", CompleteUploadPath(fid), None,
                           Some(CompleteUploadBody(ps)))
            /\ trace' = [trace EXCEPT ![r] = @ \o seen \o << Started("complete_upload", 0) >>]
            /\ pc' = [pc EXCEPT ![r] = "complete_upload"]
            /\ UNCHANGED <<idx, puts, response>>

\* upload_file from the return of create_file to the first PUT (or to its return)
UploadCreated(r) ==
    /\ pc[r] = "create_file"
    /\ \E resp \in CreateFileResponses(LastCallOf(r)) :
        LET out == RequestOutcome(resp)
            urls == DictGet(out.value, "upload_urls", JList(<<>>))
            fid == DictGet(out.value, "id", JNull)
            ended == Ended("create_file", 0, ~out.raised, None)
        IN  IF out.raised
            THEN /\ response' = [response EXCEPT ![r] =
                        Some(RaisedReply("upload_file", out))]
                 /\ pc' = [pc EXCEPT ![r] = "done"]
                 /\ trace' = [trace EXCEPT ![r] = Append(@, ended)]
                 /\ UNCHANGED <<file_id, upload_urls, idx, parts, puts,
                                api_log, wire, now, uuids>>
            ELSE /\ file_id' = [file_id EXCEPT ![r] = fid]
                 /\ upload_urls' = [upload_urls EXCEPT ![r] = urls]
                 /\ IF NoUploadUrls(urls)
                    THEN /\ response' = [response EXCEPT ![r] =
                                Some(ErrorReply("No upload URLs received from API", 500))]
                         /\ pc' = [pc EXCEPT ![r] = "done"]
                         /\ trace' = [trace EXCEPT ![r] = Append(@, ended)]
                         /\ UNCHANGED <<idx, parts, puts, api_log, wire, now, uuids>>
                    ELSE UploadLoop(r, 0, urls.xs, fid, <<>>, << ended >>)
    /\ UNCHANGED <<route, request, file_size, content_type>>

\* upload_file from the return of the PUT of chunk idx to the next PUT, to the
\* complete_upload call, or to its return
UploadChunkPut(r) ==
    /\ pc[r] = "put"
    /\ \E out \in PutOutcomes :
        LET i == idx[r]
            ps == IF EtagGiven(out) THEN Append(parts[r], PartRecord(i, Get(out.etag)))
                  ELSE parts[r]
            ended == Ended("put", i, out.kind = "response" /\ ResponseOk(out), out.etag)
        IN  IF PutFailed(out)
            THEN /\ response' = [response EXCEPT ![r] =
                        Some(ErrorReply(ChunkErrorText(i, out.text), 500))]
                 /\ pc' = [pc EXCEPT ![r] = "done"]
                 /\ trace' = [trace EXCEPT ![r] = Append(@, ended)]
                 /\ UNCHANGED <<idx, parts, puts, api_log, wire, now, uuids>>
            ELSE UploadLoop(r, NextIndex(i), upload_urls[r].xs, file_id[r], ps, << ended >>)
    /\ UNCHANGED <<route, request, file_size, content_type, file_id, upload_urls>>

\* upload_file from the return of complete_upload to its return
UploadCompleted(r) ==
    /\ pc[r] = "complete_upload"
    /\ \E resp \in CompleteUploadResponses :
        LET out == RequestOutcome(resp)
        IN  /\ trace' = [trace EXCEPT ![r] =
                   Append(@, Ended("complete_upload", 0, ~out.raised, None))]
            /\ response' = [response EXCEPT ![r] =
                   IF out.raised THEN Some(RaisedReply("upload_file", out))
                   ELSE Some(Reply(200,
                        JDict(<< <<"success", JBool(TRUE)>>,
                                 <<"id", file_id[r]>>,
                                 <<"uid", DictGet(out.value, "uid", JNull)>>,
                                 <<"download_url",
                                   DictGet(out.value, "download_url", JNull)>> >>)))]
            /\ pc' = [pc EXCEPT ![r] = "done"]
    /\ UNCHANGED <<route, request, file_size, content_type, file_id, upload_urls, idx,
                   parts, puts, api_log, wire, now, uuids>>

(***************************************************************************)
(* flatten_jsonapi_resource, flatten_jsonapi_list (vagon_api.py)           *)
(***************************************************************************)
\* d[k] = v: in place when d has k, appended otherwise
DictSet(d, k, v) ==
    IF HasKey(d, k)
    THEN JDict([j \in 1..Len(d.kv) |-> IF d.kv[j][1] = k THEN <<k, v>> ELSE d.kv[j]])
    ELSE JDict(Append(d.kv, <<k, v>>))

\* DictUpdate that leaves d as it is
DictUpdateNothing(d, kv) == d

\* d.update(e) for a dict e
RECURSIVE DictUpdate(_, _)
DictUpdate(d, kv) ==
    IF kv = <<>> THEN d
    ELSE DictUpdate(DictSet(d, Head(kv)[1], Head(kv)[2]), Tail(kv))

\* One element of the sequence given to d.update(xs), read as a (key, value)
\* pair: a list of two values, a string of two characters or a dict of two keys
\* is one; anything else that can be iterated raises ValueError, what cannot
\* raises TypeError, and so does a key that is a list or a dict (unhashable).
\* Keys are strings in this model: a pair whose key is a number, a boolean or
\* null is not modelled.
UpdatePair(el) ==
    CASE el.t \in {"null", "int", "bool"} -> JRaise("TypeError")
      [] el.t = "str" ->
           IF Len(el.s) # 2 THEN JRaise("ValueError")
           ELSE [t |-> "pair", k |-> SubSeq(el.s, 1, 1), v |-> JStr(SubSeq(el.s, 2, 2))]
      [] el.t = "dict" ->
           IF Len(el.kv) # 2 THEN JRaise("ValueError")
           ELSE [t |-> "pair", k |-> el.kv[1][1], v |-> JStr(el.kv[2][1])]
      [] el.t = "list" ->
           IF Len(el.xs) # 2 THEN JRaise("ValueError")
           ELSE CASE el.xs[1].t \in {"list", "dict"} -> JRaise("TypeError")
                  [] el.xs[1].t = "str" ->
                       [t |-> "pair", k |-> el.xs[1].s, v |-> el.xs[2]]

\* d.update(xs) for a list xs
RECURSIVE DictUpdateFromList(_, _)
DictUpdateFromList(d, xs) ==
    IF xs = <<>> THEN d
    ELSE LET pair == UpdatePair(Head(xs))
         IN  IF pair.t = "raise" THEN pair
             ELSE DictUpdateFromList(DictSet(d, pair.k, pair.v), Tail(xs))

\* result.update(attributes) for attributes that are truthy: a dict, a list of
\* pairs, a string (its elements are single characters, no pairs: ValueError)
\* or a number (not iterable: TypeError)
UpdateFrom(result, attributes) ==
    CASE attributes.t = "dict" -> DictUpdate(result, attributes.kv)
      [] attributes.t = "list" -> DictUpdateFromList(result, attributes.xs)
      [] attributes.t = "str" -> JRaise("ValueError")
      [] attributes.t \in {"int", "bool"} -> JRaise("TypeError")

RECURSIVE FlattenJsonapiResource(_)
RECURSIVE FlattenJsonapiList(_)

\* [flatten_jsonapi_resource(item) for item in items]: the first exception wins
FlattenJsonapiList(items) ==
    IF items = <<>> THEN JList(<<>>)
    ELSE LET h == FlattenJsonapiResource(Head(items))
             rest == IF h.t = "raise" THEN h ELSE FlattenJsonapiList(Tail(items))
         IN  IF h.t = "raise" THEN h
             ELSE IF rest.t = "raise" THEN rest
             ELSE JList(<<h>> \o rest.xs)

\* the loop over ['user', 'machine'] of flatten_jsonapi_resource
RECURSIVE FlattenNested(_, _)
FlattenNested(result, keys) ==
    IF keys = <<>> THEN result
    ELSE LET key == Head(keys)
             v == DictGet(result, key, JNull)
         IN  IF HasKey(result, key) /\ v.t = "dict" /\ HasKey(v, "attributes")
             THEN LET f == FlattenJsonapiResource(v)
                  IN  IF f.t = "raise" THEN f
                      ELSE FlattenNested(DictSet(result, key, f), Tail(keys))
             ELSE FlattenNested(result, Tail(keys))

\* FlattenSoftwares that leaves the attribute as it is
FlattenSoftwaresUnchanged(result) == result

\* the 'softwares' step of flatten_jsonapi_resource
FlattenSoftwares(result) ==
    LET sw == DictGet(result, "softwares", JNull)
    IN  IF HasKey(result, "softwares") /\ sw.t = "dict"
        THEN LET data == DictGet(sw, "data", JList(<<>>))
             IN  IF data.t = "list"
                 THEN LET f == FlattenJsonapiList(data.xs)
                      IN  IF f.t = "raise" THEN f ELSE DictSet(result, "softwares", f)
                 ELSE DictSet(result, "softwares", JList(<<>>))
        ELSE result

FlattenJsonapiResource(resource) ==
    IF ~Truthy(resource) THEN JDict(<<>>)
    ELSE IF resource.t # "dict" THEN JRaise("AttributeError")
    ELSE LET result == JDict(<< <<"id", DictGet(resource, "id", JNull)>>,
                                <<"type", DictGet(resource, "type", JNull)>> >>)
             attributes == DictGet(resource, "attributes", JDict(<<>>))
         IN  IF ~Truthy(attributes) THEN result
             ELSE LET updated == UpdateFrom(result, attributes)
                      nested == IF updated.t = "raise" THEN updated
                                ELSE FlattenNested(updated, <<"user", "machine">>)
                  IN  IF nested.t = "raise" THEN nested ELSE FlattenSoftwares(nested)

(***************************************************************************)
(* The same two functions with the objects they work on: a dict or a list  *)
(* is an object of the heap, named by its address, and holds its children  *)
(* by reference, so that an assignment through one name is seen through    *)
(* every other name of the object.                                        *)
(***************************************************************************)
\* a reference to the object at address a, of type t ("dict" or "list")
Ref(t, a) == [t |-> t, a |-> a]
IsRef(v) == "a" \in DOMAIN v

\* the object a value names: its children are values or references
Peek(h, v) == IF IsRef(v) THEN h[v.a] ELSE v

\* the object a value names, and for a list the objects its elements name
PeekItems(h, v) ==
    LET o == Peek(h, v)
    IN  IF o.t = "list" THEN JList([j \in 1..Len(o.xs) |-> Peek(h, o.xs[j])]) ELSE o

\* a new object on the heap
New(h, obj) == [h |-> Append(h, obj), v |-> Ref(obj.t, Len(h) + 1)]

\* a dict or a list is an object, any other value is held in place
IsObject(v) == v.t \in {"dict", "list"}

\* the values a dict or a list holds, in order
Children(v) == IF v.t = "dict" THEN [j \in 1..Len(v.kv) |-> v.kv[j][2]] ELSE v.xs

RECURSIVE Size(_)
RECURSIVE SizeAll(_)

\* how many objects the JSON values xs are made of
SizeAll(xs) == IF Len(xs) = 0 THEN 0 ELSE Size(xs[1]) + SizeAll(SubSeq(xs, 2, Len(xs)))

\* how many objects the JSON value v is made of
Size(v) == IF IsObject(v) THEN 1 + SizeAll(Children(v)) ELSE 0

\* the objects of a JSON value are built children first, from the address
\* base + 1 on: the value itself is the last of them
Built(v, base) == IF IsObject(v) THEN Ref(v.t, base + Size(v)) ELSE v

RECURSIVE Objects(_, _)
RECURSIVE ObjectsAll(_, _)

\* the objects of the JSON values xs, built from the address base + 1 on
ObjectsAll(xs, base) ==
    IF Len(xs) = 0 THEN <<>>
    ELSE Objects(xs[1], base)
            \o ObjectsAll(SubSeq(xs, 2, Len(xs)), base + Size(xs[1]))

\* the objects of the JSON value v, built from the address base + 1 on
Objects(v, base) ==
    IF ~IsObject(v) THEN <<>>
    ELSE LET cs == Children(v)
             held == [j \in 1..Len(cs) |->
                        Built(cs[j], base + SizeAll(SubSeq(cs, 1, j - 1)))]
         IN  ObjectsAll(cs, base)
                \o << IF v.t = "dict"
                      THEN JDict([j \in 1..Len(cs) |-> <<v.kv[j][1], held[j]>>])
                      ELSE JList(held) >>

\* the JSON value v built on the heap: every dict and list in it is an object
Store(h, v) == [h |-> h \o Objects(v, Len(h)), v |-> Built(v, Len(h))]

\* the JSON value that v names on the heap h, read in depth
RECURSIVE Load(_, _)
Load(h, v) ==
    LET o == Peek(h, v)
    IN  CASE o.t = "dict" ->
               JDict([j \in 1..Len(o.kv) |-> <<o.kv[j][1], Load(h, o.kv[j][2])>>])
          [] o.t = "list" -> JList([j \in 1..Len(o.xs) |-> Load(h, o.xs[j])])
          [] OTHER -> o

\* AssignTarget that names the 'attributes' mapping of the resource
AssignTargetAttributes(result, attributes) ==
    IF attributes.t = "dict" THEN attributes.a ELSE result

\* the object subscripted on the left of result[key] = ... and of
\* result['softwares'] = ...: the dict built by this call
AssignTarget(result, attributes) == result

RECURSIVE FlattenResourceOn(_, _)
RECURSIVE FlattenListOn(_, _, _)
RECURSIVE FlattenNestedOn(_, _, _, _)

\* [flatten_jsonapi_resource(item) for item in items]: done are the values
\* already flattened; the list is a new object
FlattenListOn(h, items, done) ==
    IF items = <<>> THEN New(h, JList(done))
    ELSE LET f == FlattenResourceOn(h, Head(items))
         IN  IF f.v.t = "raise" THEN f
             ELSE FlattenListOn(f.h, Tail(items), Append(done, f.v))

\* the loop over ['user', 'machine'], result being the address of the dict
FlattenNestedOn(h, result, attributes, keys) ==
    IF keys = <<>> THEN [h |-> h, v |-> Ref("dict", result)]
    ELSE LET key == Head(keys)
             v == DictGet(h[result], key, JNull)
             o == Peek(h, v)
         IN  IF HasKey(h[result], key) /\ o.t = "dict" /\ HasKey(o, "attributes")
             THEN LET f == FlattenResourceOn(h, v)
                  IN  IF f.v.t = "raise" THEN f
                      ELSE FlattenNestedOn(
                               [f.h EXCEPT ![AssignTarget(result, attributes)] =
                                               DictSet(@, key, f.v)],
                               result, attributes, Tail(keys))
             ELSE FlattenNestedOn(h, result, attributes, Tail(keys))

\* the 'softwares' step, result being the address of the dict
FlattenSoftwaresOn(h, result, attributes) ==
    LET sw == Peek(h, DictGet(h[result], "softwares", JNull))
    IN  IF HasKey(h[result], "softwares") /\ sw.t = "dict"
        THEN LET data == Peek(h, DictGet(sw, "data", JList(<<>>)))
                 f == IF data.t = "list" THEN FlattenListOn(h, data.xs, <<>>)
                      ELSE New(h, JList(<<>>))
             IN  IF f.v.t = "raise" THEN f
                 ELSE [h |-> [f.h EXCEPT ![AssignTarget(result, attributes)] =
                                             DictSet(@, "softwares", f.v)],
                       v |-> Ref("dict", result)]
        ELSE [h |-> h, v |-> Ref("dict", result)]

\* flatten_jsonapi_resource(resource) on the heap h: the heap it leaves and
\* the value it returns (a reference to a new dict) or the exception it raises
FlattenResourceOn(h, resource) ==
    LET res == Peek(h, resource)
    IN  IF ~Truthy(res) THEN New(h, JDict(<<>>))
        ELSE IF res.t # "dict" THEN [h |-> h, v |-> JRaise("AttributeError")]
        ELSE LET made == New(h, JDict(<< <<"id", DictGet(res, "id", JNull)>>,
                                        <<"type", DictGet(res, "type", JNull)>> >>))
                 result == made.v.a
                 attributes == DictGet(res, "attributes", JDict(<<>>))
             IN  IF ~Truthy(Peek(made.h, attributes)) THEN made
                 ELSE LET updated == UpdateFrom(made.h[result],
                                                PeekItems(made.h, attributes))
                      IN  IF updated.t = "raise" THEN [h |-> made.h, v |-> updated]
                          ELSE LET nested ==
                                       FlattenNestedOn(
                                           [made.h EXCEPT ![result] = updated],
                                           result, attributes, <<"user", "machine">>)
                               IN  IF nested.v.t = "raise" THEN nested
                                   ELSE FlattenSoftwaresOn(nested.h, result, attributes)

(***************************************************************************)
(* format_bytes (vagon_api.py). A size is held as its digits in base 1024, *)
(* lowest first and without leading zeros, so that sizes of a petabyte fit;*)
(* after k divisions by 1024 the float is the size with k of its digits    *)
(* behind the point, which is exact for every size below 2^53.             *)
(***************************************************************************)
\* a number without its leading zeros (the highest digits are last)
RECURSIVE Norm(_)
Norm(ds) ==
    IF Len(ds) <= 1 THEN (IF Len(ds) = 0 THEN <<0>> ELSE ds)
    ELSE IF ds[Len(ds)] = 0 THEN Norm(SubSeq(ds, 1, Len(ds) - 1)) ELSE ds

\* the digits of a natural number
RECURSIVE Digits(_)
Digits(n) == IF n < 1024 THEN <<n>> ELSE <<n % 1024>> \o Digits(n \div 1024)

\* the number a short digit sequence stands for
RECURSIVE ValueOf(_)
ValueOf(ds) == IF Len(ds) = 0 THEN 0 ELSE ds[1] + 1024 * ValueOf(SubSeq(ds, 2, Len(ds)))

\* ds * m + carry, for m up to 1024
RECURSIVE TimesCarry(_, _, _)
TimesCarry(ds, m, carry) ==
    IF Len(ds) = 0 THEN (IF carry = 0 THEN <<>> ELSE <<carry>>)
    ELSE LET t == ds[1] * m + carry
         IN  <<t % 1024>> \o TimesCarry(SubSeq(ds, 2, Len(ds)), m, t \div 1024)

Times(ds, m) == Norm(TimesCarry(ds, m, 0))

\* 1024^k
Power1024(k) == [j \in 1..(k + 1) |-> IF j = k + 1 THEN 1 ELSE 0]

\* a < b, a = b or a > b for two numbers without leading zeros
RECURSIVE Compare(_, _)
Compare(a, b) ==
    IF Len(a) # Len(b) THEN (IF Len(a) < Len(b) THEN "<" ELSE ">")
    ELSE IF Len(a) = 0 THEN "="
    ELSE IF a[Len(a)] # b[Len(b)] THEN (IF a[Len(a)] < b[Len(b)] THEN "<" ELSE ">")
    ELSE Compare(SubSeq(a, 1, Len(a) - 1), SubSeq(b, 1, Len(b) - 1))

\* Below1024 that lets 1024 itself pass
Below1024OrEqual(ds, k) == Len(ds) <= k + 1 \/ ds = Power1024(k + 1)

\* size < 1024, for size the number ds after k divisions by 1024
Below1024(ds, k) == Len(ds) <= k + 1

\* two decimal digits
TwoDigits(n) == (IF n < 10 THEN "0" ELSE "") \o ToString(n)

\* f"{size:.2f}" for size the number ds after k divisions by 1024: the nearest
\* multiple of 0.01, the even one of two that are equally near
FormatFixed2(ds, k) ==
    LET scaled == Times(ds, 100)
        whole == ValueOf(SubSeq(scaled, k + 1, Len(scaled)))
        rest == Norm(SubSeq(scaled, 1, IF k < Len(scaled) THEN k ELSE Len(scaled)))
        half == Compare(Times(rest, 2), Power1024(k))
        hundredths == IF half = ">" \/ (half = "=" /\ whole % 2 = 1)
                      THEN whole + 1 ELSE whole
    IN  ToString(hundredths \div 100) \o "." \o TwoDigits(hundredths % 100)

\* the loop of format_bytes, from the unit units[1] on, after k divisions
RECURSIVE FormatBytesFrom(_, _, _)
FormatBytesFrom(ds, k, units) ==
    IF units = <<>> THEN FormatFixed2(ds, k) \o " PB"
    ELSE IF Below1024(ds, k) THEN FormatFixed2(ds, k) \o " " \o Head(units)
    ELSE FormatBytesFrom(ds, k + 1, Tail(units))

\* format_bytes(size)
FormatBytes(ds) == FormatBytesFrom(ds, 0, <<"B", "KB", "MB", "GB", "TB">>)

(***************************************************************************)
(* The routes that check their input and make one client call.             *)
(***************************************************************************)
\* jsonify({'error': msg, 'client_code': 400, 'status_code': 400}), 400
BadRequestReply(msg) ==
    Reply(400, JDict(<< <<"error", JStr(msg)>>, <<"client_code", JInt(400)>>,
                        <<"status_code", JInt(400)>> >>))

\* a route either returns early, or makes a client call
Early(reply) == [early |-> TRUE, reply |-> reply, method |-> "", path |-> "",
                 params |-> None, body |-> None]
Call(method, path, params, body) ==
    [early |-> FALSE, reply |-> Reply(0, JNull), method |-> method, path |-> path,
     params |-> params, body |-> body]

\* request.get_json(silent=True) or {}
JsonOrEmpty(data) == IF Truthy(data) THEN data ELSE JDict(<<>>)

MachinePath(machine_id) ==
    "/organization-management/v1/machines/" \o ToString(machine_id)

\* create_access up to VagonAPI.create_machine_access
CreateAccessEntry(machine_id, json) ==
    LET data == JsonOrEmpty(json)
    IN  IF ~HasKey(data, "expires_in") \/ DictGet(data, "expires_in", JNull) = JNull
        THEN Early(BadRequestReply("expires_in parameter is required (in seconds)"))
        ELSE Call("POST", MachinePath(machine_id) \o "/access", None,
                  Some(JDict(<< <<"expires_in", DictGet(data, "expires_in", JNull)>> >>)))

\* set_machine_type up to VagonAPI.set_machine_type
SetMachineTypeEntry(machine_id, json) ==
    LET machine_type_id == DictGet(JsonOrEmpty(json), "machine_type_id", JNull)
    IN  IF ~Truthy(machine_type_id)
        THEN Early(BadRequestReply("machine_type_id parameter is required"))
        ELSE Call("POST", MachinePath(machine_id) \o "/machine-type", None,
                  Some(JDict(<< <<"machine_type_id", machine_type_id>> >>)))

\* CompleteUploadEntry without the check of the body
CompleteUploadEntryUnchecked(fid, data) ==
    Call("POST", CompleteUploadPath(JInt(fid)), None,
         Some(JDict(<< <<"parts", DictGet(JsonOrEmpty(data), "parts", JNull)>> >>)))

\* complete_upload (the route) up to VagonAPI.complete_upload
CompleteUploadEntry(fid, data) ==
    IF ~Truthy(data) \/ ~HasKey(data, "parts")
    THEN Early(BadRequestReply("JSON body with \"parts\" array is required"))
    ELSE Call("POST", CompleteUploadPath(JInt(fid)), None,
              Some(JDict(<< <<"parts", DictGet(data, "parts", JNull)>> >>)))

\* create_image up to VagonAPI.create_image
CreateImageEntry(json) ==
    LET data == JsonOrEmpty(json)
        machine_id == DictGet(data, "machine_id", JNull)
        name == DictGet(data, "name", JNull)
    IN  IF ~Truthy(machine_id)
        THEN Early(BadRequestReply("machine_id parameter is required"))
        ELSE Call("POST", "/organization-management/v1/images", None,
                  Some(JDict(<< <<"machine_id", machine_id>> >>
                             \o (IF Truthy(name) THEN << <<"name", name>> >> ELSE <<>>))))

\* assign_image up to VagonAPI.assign_image
AssignImageEntry(image_id, json) ==
    LET machine_ids == DictGet(JsonOrEmpty(json), "machine_ids", JNull)
    IN  IF ~Truthy(machine_ids)
        THEN Early(BadRequestReply("machine_ids parameter is required"))
        ELSE Call("POST", "/organization-management/v1/images/" \o ToString(image_id)
                              \o "/assign", None,
                  Some(JDict(<< <<"machine_ids", machine_ids>> >>)))

\* start_machine up to VagonAPI.start_machine, whose body holds the fields given
StartMachineEntry(machine_id, json) ==
    LET data == JsonOrEmpty(json)
        machine_type_id == DictGet(data, "machine_type_id", JNull)
        region == DictGet(data, "region", JNull)
        body == (IF machine_type_id # JNull
                 THEN << <<"machine_type_id", machine_type_id>> >> ELSE <<>>)
                \o (IF region # JNull THEN << <<"region", region>> >> ELSE <<>>)
    IN  Call("POST", MachinePath(machine_id) \o "/start", None,
             IF body # <<>> THEN Some(JDict(body)) ELSE None)

\* get_download_url up to VagonAPI.get_download_url
GetDownloadUrlEntry(fid) ==
    Call("GET", "/organization-management/v1/files/" \o ToString(fid) \o "/download",
         None, None)

\* request.args.get(key, default, type=int): the default when the parameter is
\* absent or is no number
ArgInt(arg, default) ==
    IF ~IsNone(arg) /\ IsDecimal(Get(arg)) THEN JInt(ParseNat(Get(arg))) ELSE default

\* request.args.get(key, None)
ArgStr(arg) == IF IsNone(arg) THEN JNull ELSE JStr(Get(arg))

\* request.args.get('has_session_data',
\*                  type=lambda v: v.lower() == 'true' if v else None)
ArgHasSessionData(arg) ==
    IF IsNone(arg) \/ Get(arg) = "" THEN JNull ELSE JBool(Lower(Get(arg)) = "true")

\* the parameters of VagonAPI.list_machines(self, page, per_page, query)
ListMachinesParameters == {"page", "per_page", "query"}

\* the keywords index and api_list_machines call list_machines with
ListMachinesKeywords ==
    <<"page", "per_page", "query", "time_left", "has_session_data", "status">>

\* the keyword k is none of the parameters of list_machines
NotOfListMachines(k) == k \notin ListMachinesParameters

\* api_client.<name>(keyword=..., ...): the exception of the call itself, if
\* any: AttributeError when VagonAPI has no such method, TypeError when the
\* method has no parameter of the name of a keyword (unexpected: the keywords
\* it does not have, in call order)
CallError(name, unexpected) ==
    IF ("VagonAPI." \o name) \notin ClientMethods
    THEN Some(JRaise("'VagonAPI' object has no attribute '" \o name \o "'"))
    ELSE IF unexpected # <<>>
    THEN Some(JRaise("VagonAPI." \o name \o "() got an unexpected keyword argument '"
                     \o unexpected[1] \o "'"))
    ELSE None

\* the routes that list the machines
ListMachinesRoutes == {"index", "api_list_machines"}

\* index and api_list_machines up to VagonAPI.list_machines; args are the
\* query parameters of the request
ListMachinesEntry(name, args) ==
    LET page == ArgInt(args.page, JInt(1))
        per_page == ArgInt(args.per_page, JInt(20))
        query == ArgStr(args.q)
        error == CallError("list_machines",
                           SelectSeq(ListMachinesKeywords, NotOfListMachines))
    IN  IF ~IsNone(error) THEN Early(Uncaught(name, Get(error)))
        ELSE Call("GET", V1 \o "/machines",
                  Some(PageParams(page.n, per_page.n,
                                  IF query = JNull THEN "" ELSE query.s)),
                  None)

\* index and api_list_machines from the return of list_machines
ListMachinesReply(name, args, result) ==
    LET page == ArgInt(args.page, JInt(1))
        listed == DictGet(result, "machines", JList(<<>>))
        machines == IF listed.t = "list" THEN FlattenJsonapiList(listed.xs)
                    ELSE JRaise("TypeError")
    IN  IF machines.t = "raise" THEN Uncaught(name, machines)
        ELSE IF name = "index"
        THEN Reply(200, JDict(<< <<"machines", machines>>,
                                 <<"count", DictGet(result, "count", JInt(0))>>,
                                 <<"page", page>>,
                                 <<"next_page", DictGet(result, "next_page", JNull)>>,
                                 <<"query", ArgStr(args.q)>>,
                                 <<"time_left", ArgInt(args.time_left, JNull)>>,
                                 <<"has_session_data",
                                   ArgHasSessionData(args.has_session_data)>>,
                                 <<"status", ArgStr(args.status)>> >>))
        ELSE Reply(200, JDict(<< <<"machines", machines>>,
                                 <<"count", DictGet(result, "count", JInt(0))>>,
                                 <<"page", DictGet(result, "page", page)>>,
                                 <<"next_page", DictGet(result, "next_page", JNull)>> >>))

\* update_machine_permissions up to api_client.update_machine_permissions, a
\* method VagonAPI does not have
UpdateMachinePermissionsEntry(machine_id, json) ==
    LET permissions == DictGet(JsonOrEmpty(json), "permissions", JNull)
    IN  IF ~Truthy(permissions)
        THEN Early(BadRequestReply("permissions parameter is required"))
        ELSE Early(Uncaught("update_machine_permissions",
                            Get(CallError("update_machine_permissions", <<>>))))

\* the JSON bodies tried: none (or not JSON), the empty object, and objects
\* with the field absent, null, falsy and set
BodiesFor(key, falsy, set) ==
    { JNull, JDict(<<>>),
      JDict(<< <<"other", JInt(1)>> >>),
      JDict(<< <<key, JNull>> >>),
      JDict(<< <<key, falsy>> >>),
      JDict(<< <<key, set>> >>),
      JDict(<< <<"name", JStr("n")>>, <<key, set>> >>) }

\* the path parameters of the routes
MachineId == 456
ImageId == 123
FileId == 789

\* the route's handler from its start to its client call (or its early return)
Dispatch(r, name, json, entry) ==
    /\ pc[r] = "idle"
    /\ route' = [route EXCEPT ![r] = name]
    /\ request' = [request EXCEPT ![r] = json]
    /\ IF entry.early
       THEN /\ response' = [response EXCEPT ![r] = Some(entry.reply)]
            /\ pc' = [pc EXCEPT ![r] = "done"]
            /\ UNCHANGED <<trace, api_log, wire, now, uuids>>
       ELSE /\ SendRequest(r, entry.method, entry.path, entry.params, entry.body)
            /\ trace' = [trace EXCEPT ![r] = Append(@, Started(name, 0))]
            /\ pc' = [pc EXCEPT ![r] = "api_call"]
            /\ UNCHANGED response
    /\ UNCHANGED <<file_size, content_type, file_id, upload_urls, idx, parts, puts>>

CreateAccess(r) ==
    \E json \in BodiesFor("expires_in", JInt(0), JInt(3600)) :
        Dispatch(r, "create_access", json, CreateAccessEntry(MachineId, json))

SetMachineType(r) ==
    \E json \in BodiesFor("machine_type_id", JInt(0), JInt(5)) :
        Dispatch(r, "set_machine_type", json, SetMachineTypeEntry(MachineId, json))

CompleteUpload(r) ==
    \E json \in BodiesFor("parts", JList(<<>>), JList(<< PartRecord(0, "\"e1\"") >>)) :
        Dispatch(r, "complete_upload", json, CompleteUploadEntry(FileId, json))

CreateImage(r) ==
    \E json \in BodiesFor("machine_id", JInt(0), JInt(MachineId)) :
        Dispatch(r, "create_image", json, CreateImageEntry(json))

AssignImage(r) ==
    \E json \in BodiesFor("machine_ids", JList(<<>>), JList(<< JInt(MachineId) >>)) :
        Dispatch(r, "assign_image", json, AssignImageEntry(ImageId, json))

StartMachine(r) ==
    \E json \in { JNull, JDict(<< <<"machine_type_id", JInt(5)>> >>),
                  JDict(<< <<"region", JStr("dublin")>> >>) } :
        Dispatch(r, "start_machine", json, StartMachineEntry(MachineId, json))

GetDownloadUrl(r) ==
    Dispatch(r, "get_download_url", JNull, GetDownloadUrlEntry(FileId))

\* the query parameters tried: absent, or given
ListMachinesArgs ==
    [page : {None, Some("2")}, per_page : {None, Some("50"), Some("x")},
     q : {None, Some("dev")}, time_left : {None, Some("30")},
     has_session_data : {None, Some(""), Some("True"), Some("false")},
     status : {None, Some("running")}]

ApiListMachines(r) ==
    \E args \in ListMachinesArgs :
        Dispatch(r, "api_list_machines", args, ListMachinesEntry("api_list_machines", args))

Index(r) ==
    \E args \in ListMachinesArgs :
        Dispatch(r, "index", args, ListMachinesEntry("index", args))

UpdateMachinePermissions(r) ==
    \E json \in BodiesFor("permissions", JDict(<<>>),
                          JDict(<< <<"screen_recording_enabled", JBool(TRUE)>>,
                                   <<"input_recording_enabled", JBool(FALSE)>> >>)) :
        Dispatch(r, "update_machine_permissions", json,
                 UpdateMachinePermissionsEntry(MachineId, json))

\* a direct call of VagonAPI._request(method, path, params, body) by a user of
\* the client
ClientRequest(r) ==
    \E method \in {"GET", "POST", "DELETE"},
       body \in { None, Some(JDict(<<>>)), Some(JDict(<< <<"k", JStr("a b")>> >>)) } :
        Dispatch(r, "_request", JNull,
                 Call(method, "/organization-management/v1/software", None, body))

\* a public method of the client called directly by a user of the client
ClientMethod(r) ==
    \E e \in Endpoints :
        Dispatch(r, e.name, JNull, Call(e.method, e.path, e.params, e.body))

\* the methods that return the machine types of a machine
MachineTypesMethods ==
    {"VagonAPI.get_machine_available_machine_types",
     "VagonAPI.get_seat_available_machine_types"}

\* what the remote may answer to the call of a route
RouteResponses(name) ==
    ErrorResponses \cup
    CASE name = "create_access" ->
           { JsonResponse(200, JDict(<< <<"id", JStr("1")>>, <<"type", JStr("access")>>,
                <<"attributes", JDict(<< <<"connection_link", JStr("https://link")>>,
                                         <<"expires_at", JStr("2026")>> >>)>> >>)) }
      [] name = "complete_upload" -> CompleteUploadResponses
      [] name = "create_image" ->
           { JsonResponse(200, JDict(<< <<"id", JStr("9")>>, <<"type", JStr("image")>>,
                <<"attributes", JDict(<< <<"name", JStr("n")>> >>)>> >>)) }
      [] name \in ListMachinesRoutes ->
           { JsonResponse(200, JDict(<< <<"machines", JList(<<
                JDict(<< <<"id", JStr("456")>>, <<"type", JStr("machine")>>,
                         <<"attributes", JDict(<< <<"name", JStr("m")>> >>)>> >>)
                >>)>>, <<"count", JInt(1)>>, <<"page", JInt(1)>>,
                <<"next_page", JNull>> >>)),
             JsonResponse(200, JDict(<<>>)) }
      [] name \in MachineTypesMethods ->
           { JsonResponse(200, JDict(<< <<"machine_types", JList(<<
                JDict(<< <<"id", JStr("5")>>, <<"type", JStr("machine_type")>>,
                         <<"attributes", JDict(<< <<"name", JStr("Planet")>> >>)>> >>)
                >>)>> >>)),
             JsonResponse(200, JDict(<< <<"machine_types", JNull>> >>)),
             JsonResponse(200, JDict(<<>>)) }
      [] OTHER -> { TextResponse(200, ""), JsonResponse(200, JDict(<<>>)) }

\* the route's handler from the return of its client call to its return
RouteReply(name, result) ==
    CASE name = "create_access" ->
           LET attrs == DictGet(result, "attributes", JDict(<<>>))
           IN  Reply(200, JDict(<< <<"success", JBool(TRUE)>>,
                    <<"connection_link", DictGet(attrs, "connection_link", JNull)>>,
                    <<"expires_at", DictGet(attrs, "expires_at", JNull)>> >>))
      [] name = "set_machine_type" ->
           Reply(200, JDict(<< <<"success", JBool(TRUE)>>,
                               <<"message", JStr("Machine type updated")>> >>))
      [] name = "complete_upload" ->
           Reply(200, JDict(<< <<"success", JBool(TRUE)>>,
                               <<"uid", DictGet(result, "uid", JNull)>>,
                               <<"download_url", DictGet(result, "download_url", JNull)>> >>))
      [] name = "create_image" ->
           LET image == FlattenJsonapiResource(result)
           IN  IF image.t = "raise" THEN ExceptionReply(image) ELSE Reply(200, image)
      [] name = "assign_image" ->
           Reply(200, JDict(<< <<"success", JBool(TRUE)>>,
                               <<"message", JStr("Image assigned to machines")>> >>))
      [] name = "start_machine" ->
           Reply(200, JDict(<< <<"success", JBool(TRUE)>>,
                               <<"message", JStr("Machine start initiated")>> >>))
      [] name = "get_download_url" -> Reply(200, result)
      [] name = "_request" -> Reply(0, result)
      [] name \in MachineTypesMethods ->
           LET machine_types == DictGet(result, "machine_types", JList(<<>>))
           IN  Reply(0, IF machine_types.t = "list"
                        THEN FlattenJsonapiList(machine_types.xs)
                        ELSE JList(<<>>))
      [] OTHER -> Reply(0, result)

ApiReturned(r) ==
    /\ pc[r] = "api_call"
    /\ \E resp \in RouteResponses(route[r]) :
        LET out == RequestOutcome(resp)
        IN  /\ trace' = [trace EXCEPT ![r] = Append(@, Ended(route[r], 0, ~out.raised, None))]
            /\ response' = [response EXCEPT ![r] =
                   Some(IF out.raised THEN RaisedReply(route[r], out)
                        ELSE IF route[r] \in ListMachinesRoutes
                        THEN ListMachinesReply(route[r], request[r], out.value)
                        ELSE RouteReply(route[r], out.value))]
            /\ pc' = [pc EXCEPT ![r] = "done"]
    /\ UNCHANGED <<route, request, file_size, content_type, file_id, upload_urls, idx,
                   parts, puts, api_log, wire, now, uuids>>

(***************************************************************************)
(* The specification.                                                      *)
(***************************************************************************)
\* the state after construction, but for the requests
Constructed ==
    /\ pc = [r \in Reqs |-> "idle"]
    /\ route = [r \in Reqs |-> ""]
    /\ file_size = [r \in Reqs |-> 0]
    /\ content_type = [r \in Reqs |-> ""]
    /\ file_id = [r \in Reqs |-> JNull]
    /\ upload_urls = [r \in Reqs |-> JList(<<>>)]
    /\ idx = [r \in Reqs |-> 0]
    /\ parts = [r \in Reqs |-> <<>>]
    /\ trace = [r \in Reqs |-> <<>>]
    /\ puts = [r \in Reqs |-> <<>>]
    /\ api_log = <<>>
    /\ wire = <<>>
    /\ now = StartClock
    /\ uuids = 0
    /\ response = [r \in Reqs |-> None]

Init ==
    /\ request = [r \in Reqs |-> JNull]
    /\ Constructed

Step(r) ==
    \/ UploadFile(r)
    \/ UploadCreated(r)
    \/ UploadChunkPut(r)
    \/ UploadCompleted(r)
    \/ CreateAccess(r)
    \/ SetMachineType(r)
    \/ CompleteUpload(r)
    \/ CreateImage(r)
    \/ AssignImage(r)
    \/ StartMachine(r)
    \/ GetDownloadUrl(r)
    \/ ApiListMachines(r)
    \/ Index(r)
    \/ UpdateMachinePermissions(r)
    \/ ClientRequest(r)
    \/ ClientMethod(r)
    \/ ApiReturned(r)

Next == \E r \in Serial : Step(r)

Spec == Init /\ [][Next]_vars

(***************************************************************************)
(* Properties.                                                             *)
(***************************************************************************)
StartsWith(s, prefix) ==
    Len(s) >= Len(prefix) /\ SubSeq(s, 1, Len(prefix)) = prefix

\* the positions of a request's trace that hold the event e
Positions(r, e) == {j \in 1..Len(trace[r]) : trace[r][j] = e}

IsPutEnd(e) == e.ev = "end" /\ e.op = "put"

\* the _request invocations made on behalf of request r
CallsOf(r) == {j \in 1..Len(api_log) : api_log[j].by = r}

\* the complete_upload calls of the upload request r
CompleteCallsOf(r) ==
    {j \in CallsOf(r) : route[r] = "upload_file"
                        /\ api_log[j].path = CompleteUploadPath(file_id[r])}

\* the reply of request r is an error
RepliedError(r) == ~IsNone(response[r]) /\ Get(response[r]).status >= 400

\* the ETag the PUT of chunk i returned to request r
EtagOfChunk(r, i) ==
    (CHOOSE e \in {trace[r][j] : j \in 1..Len(trace[r])} : IsPutEnd(e) /\ e.idx = i).etag

\* C1: a PUT response without an ETag header aborts the upload at once: no later
\* chunk is PUT, complete_upload is not called, and the request ends in an error.
C1_MissingEtagAborts ==
    \A r \in Reqs : \A j \in 1..Len(trace[r]) :
        (IsPutEnd(trace[r][j]) /\ trace[r][j].ok /\ IsNone(trace[r][j].etag))
        => /\ j = Len(trace[r])
           /\ CompleteCallsOf(r) = {}
           /\ pc[r] = "done"
           /\ RepliedError(r)

\* C2: whenever upload_file calls complete_upload, the parts it submits are one
\* record per upload URL, numbered 1..N in order, each with the ETag returned for
\* the chunk at that position.
C2_PartsMatchUrls ==
    \A r \in Reqs : \A j \in CompleteCallsOf(r) :
        LET ps == DictGet(Get(api_log[j].body), "parts", JNull).xs
            n == Len(upload_urls[r].xs)
        IN  /\ Len(ps) = n
            /\ \A k \in 1..n :
                /\ ~IsNone(EtagOfChunk(r, k - 1))
                /\ ps[k] = PartRecord(k - 1, Get(EtagOfChunk(r, k - 1)))

\* C3: once the PUT of chunk k raised or returned a non-successful status, no PUT
\* of a later chunk is issued and complete_upload is never called.
C3_FailedPutAborts ==
    \A r \in Reqs : \A j \in 1..Len(trace[r]) :
        (IsPutEnd(trace[r][j]) /\ ~trace[r][j].ok)
        => /\ j = Len(trace[r])
           /\ Len(puts[r]) = trace[r][j].idx + 1
           /\ \A k \in 1..Len(puts[r]) : puts[r][k].idx <= trace[r][j].idx
           /\ CompleteCallsOf(r) = {}
           /\ Positions(r, Started("complete_upload", 0)) = {}

C3_Witness ==
    \E r \in Reqs :
        /\ pc[r] = "done"
        /\ Len(upload_urls[r].xs) = 3
        /\ trace[r][Len(trace[r])] = Ended("put", 1, FALSE, None)

\* C4: when the PUT of the chunk at index k fails, upload_file answers 500 with an
\* error that names chunk k+1: "Failed to upload chunk <k+1>: ...".
C4_ChunkErrorNamesChunk ==
    \A r \in Reqs :
        (pc[r] = "done" /\ trace[r] # <<>>
            /\ IsPutEnd(trace[r][Len(trace[r])]) /\ ~trace[r][Len(trace[r])].ok)
        => LET k == trace[r][Len(trace[r])].idx
               reply == Get(response[r])
               error == DictGet(reply.body, "error", JNull)
           IN  /\ reply.status = 500
               /\ error.t = "str"
               /\ StartsWith(error.s, "Failed to upload chunk " \o ToString(k + 1) \o ":")

C4_Witness ==
    \E r \in Reqs :
        /\ pc[r] = "done"
        /\ trace[r] # <<>>
        /\ trace[r][Len(trace[r])] = Ended("put", 1, FALSE, None)
        /\ Get(response[r]) = ErrorReply("Failed to upload chunk 2: AccessDenied", 500)

CeilDiv(a, b) == (a + b - 1) \div b

\* every PUT of request r so far succeeded and returned an ETag
AllPutsGaveEtag(r) ==
    \A j \in 1..Len(trace[r]) :
        IsPutEnd(trace[r][j]) => trace[r][j].ok /\ ~IsNone(trace[r][j].etag)

\* the part numbers of the parts collected by request r
PartNumbers(r) == [k \in 1..Len(parts[r]) |-> DictGet(parts[r][k], "part_number", JNull).n]

\* the sizes of the chunks PUT by request r
ChunkSizes(r) == [k \in 1..Len(puts[r]) |-> puts[r][k].chunk.hi - puts[r][k].chunk.lo]

\* C5: when create_file returned ceil(S/C) URLs and every PUT gave an ETag, the
\* upload made exactly N = ceil(S/C) transfers, chunk i being bytes[i*C : min((i+1)*C, S)],
\* of size C except the last of size S-(N-1)*C, with part numbers 1..N.
C5_ChunksCoverFile ==
    \A r \in Reqs :
        LET S == file_size[r]
            C == chunk_size
            n == Len(upload_urls[r].xs)
        IN  (Positions(r, Started("complete_upload", 0)) # {}
                /\ n = CeilDiv(S, C) /\ AllPutsGaveEtag(r))
            => /\ Len(puts[r]) = n
               /\ \A k \in 1..n :
                    /\ puts[r][k].chunk = [lo |-> (k - 1) * C, hi |-> Min(k * C, S)]
                    /\ puts[r][k].url = upload_urls[r].xs[k].s
                    /\ ChunkSizes(r)[k] = IF k < n THEN C ELSE S - (n - 1) * C
               /\ PartNumbers(r) = [k \in 1..n |-> k]

C5_Witness ==
    \E r \in Reqs :
        /\ Positions(r, Started("complete_upload", 0)) # {}
        /\ file_size[r] = 600 * MiB
        /\ ChunkSizes(r) = << 250 * MiB, 250 * MiB, 100 * MiB >>
        /\ PartNumbers(r) = << 1, 2, 3 >>

\* C6: the remote calls of one upload_file request happen one at a time and in
\* order: create_file first, the PUT of chunk i+1 only after the PUT of chunk i
\* ended successfully, complete_upload only after the PUT of the last chunk ended.
C6_OneCallAtATime ==
    \A r \in Reqs : \A j \in 1..Len(trace[r]) :
        LET t == trace[r]
            e == t[j]
        IN  /\ e.ev = "end" => j > 1 /\ t[j - 1] = Started(e.op, e.idx)
            /\ e.ev = "start" =>
                /\ j > 1 => t[j - 1].ev = "end"
                /\ j < Len(t) => t[j + 1].ev = "end"
                /\ route[r] = "upload_file" =>
                    /\ e.op = "create_file" => j = 1
                    /\ (e.op = "put" /\ e.idx = 0) =>
                            j > 1 /\ t[j - 1] = Ended("create_file", 0, TRUE, None)
                    /\ (e.op = "put" /\ e.idx > 0) =>
                            j > 1 /\ IsPutEnd(t[j - 1]) /\ t[j - 1].idx = e.idx - 1
                                  /\ t[j - 1].ok
                    /\ e.op = "complete_upload" =>
                            j > 1 /\ IsPutEnd(t[j - 1]) /\ t[j - 1].ok
                                  /\ t[j - 1].idx = Len(upload_urls[r].xs) - 1

C6_Witness ==
    \E r \in Reqs :
        /\ route[r] = "upload_file"
        /\ Len(upload_urls[r].xs) = 3
        /\ Len(trace[r]) = 10
        /\ trace[r][9] = Started("complete_upload", 0)
        /\ trace[r][10].ev = "end"

\* C7: nothing is retried: one upload_file request calls create_file at most once,
\* PUTs each upload URL at most once and calls complete_upload at most once, and
\* every VagonAPI._request invocation makes exactly one HTTP request.
C7_NoRetries ==
    /\ \A r \in Reqs :
        /\ Cardinality(Positions(r, Started("create_file", 0))) <= 1
        /\ Cardinality(Positions(r, Started("complete_upload", 0))) <= 1
        /\ Cardinality(CompleteCallsOf(r)) <= 1
        /\ \A k1, k2 \in 1..Len(puts[r]) : puts[r][k1].url = puts[r][k2].url => k1 = k2
        /\ Cardinality(CallsOf(r))
             = Cardinality({j \in 1..Len(trace[r]) :
                               trace[r][j].ev = "start" /\ trace[r][j].op # "put"})
    /\ Len(wire) = Len(api_log)
    /\ \A j \in 1..Len(wire) :
        j <= Len(api_log) =>
            /\ wire[j].method = api_log[j].method
            /\ wire[j].url = BaseUrl \o api_log[j].path

C7_Witness ==
    \E r \in Reqs :
        /\ pc[r] = "done"
        /\ Len(puts[r]) = 2
        /\ trace[r][Len(trace[r])] = Ended("complete_upload", 0, FALSE, None)
        /\ Len(wire) = 2

\* C8: when create_file fails, or returns an empty or no upload_urls list, the
\* upload request ends in an error and neither a PUT nor complete_upload is issued.
C8_CreateFailsFast ==
    \A r \in Reqs : \A j \in 1..Len(trace[r]) :
        (trace[r][j].ev = "end" /\ trace[r][j].op = "create_file"
            /\ (~trace[r][j].ok \/ ~Truthy(upload_urls[r])))
        => /\ pc[r] = "done"
           /\ RepliedError(r)
           /\ puts[r] = <<>>
           /\ j = Len(trace[r])
           /\ Cardinality(CallsOf(r)) = 1

C8_Witness ==
    \E r \in Reqs :
        /\ trace[r] = << Started("create_file", 0), Ended("create_file", 0, TRUE, None) >>
        /\ Get(response[r]) = ErrorReply("No upload URLs received from API", 500)

\* the request lacks what its route requires
MissingPrecondition(name, req) ==
    CASE name = "upload_file" ->
            ~HasKey(req, "file") \/ DictGet(req, "file", JNull) = JStr("")
      [] name = "create_access" -> ~HasKey(JsonOrEmpty(req), "expires_in")
      [] name = "set_machine_type" -> ~HasKey(JsonOrEmpty(req), "machine_type_id")
      [] name = "complete_upload" -> ~HasKey(JsonOrEmpty(req), "parts")
      [] name = "create_image" -> ~HasKey(JsonOrEmpty(req), "machine_id")
      [] name = "assign_image" -> ~HasKey(JsonOrEmpty(req), "machine_ids")
      [] OTHER -> FALSE

\* C9: a request that lacks what its route requires (upload_file: the 'file' part
\* or its filename; create_access: expires_in; set_machine_type: machine_type_id;
\* complete_upload: 'parts'; create_image: machine_id; assign_image: machine_ids)
\* is answered 400 and the client makes no remote request for it.
C9_PreconditionBeforeRemote ==
    \A r \in Reqs :
        (route[r] # "" /\ MissingPrecondition(route[r], request[r]))
        => /\ pc[r] = "done"
           /\ Get(response[r]).status = 400
           /\ CallsOf(r) = {}
           /\ trace[r] = <<>>

C9_Witness ==
    \E r \in Reqs :
        /\ route[r] = "complete_upload"
        /\ request[r] = JDict(<< <<"other", JInt(1)>> >>)
        /\ Get(response[r]).status = 400
        /\ wire = <<>>

\* C10: the body inside the signed string of every _request call is the very
\* string sent as the HTTP body; for a body of None or {} the signed body is the
\* empty string and neither a body nor a Content-Type header is sent.
C10_SignedBodyIsSentBody ==
    \A j \in 1..Len(wire) :
        j <= Len(api_log) =>
            LET w == wire[j]
                a == api_log[j]
                sent == IF IsNone(w.data) THEN "" ELSE Get(w.data)
            IN  /\ w.headers.Authorization
                     = GenerateAuthHeader(Credential, a.method, a.path, sent,
                                          w.nonce, w.timestamp)
                /\ (IsNone(a.body) \/ a.body = Some(JDict(<<>>)))
                     => IsNone(w.data) /\ IsNone(w.headers.ContentType)
                /\ ~IsNone(w.data) => Get(w.data) # ""

C10_Witness ==
    \E j \in 1..Len(wire) :
        /\ api_log[j].body = Some(JDict(<<>>))
        /\ IsNone(wire[j].data)
        /\ IsNone(wire[j].headers.ContentType)

(***************************************************************************)
(* The signer called directly: _generate_hmac_signature and                *)
(* _generate_auth_header of a client, by two callers that share the clock  *)
(* and the uuid source. The arguments of a call are in request, the value  *)
(* returned in response.                                                   *)
(***************************************************************************)
\* the clients and arguments tried: (self.api_key, self.api_secret), method,
\* path, body; timestamp and nonce are arguments of _generate_hmac_signature only
SignerInputs ==
    [cred : [api_key : {"KEY"}, api_secret : {"SECRET", "SECRET2"}],
     method : {"GET", "POST"},
     path : {"/organization-management/v1/files",
             "/organization-management/v1/files/7"},
     body : {"", "{\"size\": 7}"},
     timestamp : {ToString(StartClock)},
     nonce : {Uuid4(0)}]

\* a function of the library returns value to the caller in slot r
Returned(r, name, value) ==
    /\ pc[r] = "idle"
    /\ route' = [route EXCEPT ![r] = name]
    /\ response' = [response EXCEPT ![r] = Some(Reply(0, value))]
    /\ pc' = [pc EXCEPT ![r] = "done"]
    /\ UNCHANGED <<request, file_size, content_type, file_id, upload_urls, idx, parts,
                   trace, puts, api_log, wire>>

\* VagonAPI._generate_hmac_signature(method, path, timestamp, nonce, body)
GenerateHmacSignatureCall(r) ==
    LET a == request[r]
    IN  /\ Returned(r, "_generate_hmac_signature",
                    JStr(GenerateHmacSignature(a.cred, a.method, a.path, a.timestamp,
                                               a.nonce, a.body)))
        /\ UNCHANGED <<now, uuids>>

\* VagonAPI._generate_auth_header(method, path, body): draws a uuid and reads
\* the clock
GenerateAuthHeaderCall(r) ==
    LET a == request[r]
    IN  \E t \in now..(IF now < StartClock + MaxTicks THEN now + 1 ELSE now) :
            /\ now' = t
            /\ uuids' = uuids + 1
            /\ Returned(r, "_generate_auth_header",
                        JStr(GenerateAuthHeader(a.cred, a.method, a.path, a.body,
                                                Uuid4(uuids + 1), ToString(t))))

SignerInit ==
    /\ request \in [Reqs -> SignerInputs]
    /\ Constructed

SignerNext ==
    \E r \in Reqs :
        \/ GenerateHmacSignatureCall(r)
        \/ GenerateAuthHeaderCall(r)

SignerSpec == SignerInit /\ [][SignerNext]_vars

\* the caller in slot r called the function name, and it returned
Called(r, name) == pc[r] = "done" /\ route[r] = name

\* the value returned to the caller in slot r
Returns(r) == Get(response[r]).body

SetMin(S) == CHOOSE x \in S : \A y \in S : x <= y
SetMax(S) == CHOOSE x \in S : \A y \in S : x >= y

\* the positions of the character c in the string s
IndicesOf(s, c) == {j \in 1..Len(s) : SubSeq(s, j, j) = c}

\* An Authorization header read as "<scheme><f1>:<f2>:<f3>:<f4>", the scheme being
\* its first five characters: f1 ends at the first colon, f4 starts after the
\* last one and f3 after the one before it.
HeaderFields(h) ==
    LET rest == SubSeq(h, 6, Len(h))
        cs == IndicesOf(rest, ":")
        c1 == SetMin(cs)
        c3 == SetMax(cs)
        c2 == SetMax(cs \ {c3})
    IN  [scheme |-> SubSeq(h, 1, 5),
         api_key |-> SubSeq(rest, 1, c1 - 1),
         signature |-> SubSeq(rest, c1 + 1, c2 - 1),
         nonce |-> SubSeq(rest, c2 + 1, c3 - 1),
         timestamp |-> SubSeq(rest, c3 + 1, Len(rest))]

\* the signature field of the header h is the HMAC-SHA256, keyed by the secret,
\* of api_key+method+path+timestamp+nonce+body for the nonce and the timestamp
\* in the fields of h
Validates(h, a) ==
    LET f == HeaderFields(h)
    IN  f.signature = HmacSha256Hex(a.cred.api_secret,
                          a.cred.api_key \o a.method \o a.path \o f.timestamp
                              \o f.nonce \o a.body)

\* C11: the header made by _generate_auth_header reads
\* "HMAC <api_key>:<signature>:<nonce>:<timestamp>", the signature being the
\* HMAC-SHA256 keyed by api_secret of api_key+method+path+timestamp+nonce+body
\* with the very nonce and timestamp of the third and fourth fields, which are
\* the uuid drawn and the clock reading.
C11_HeaderFormat ==
    \A r \in Reqs :
        Called(r, "_generate_auth_header") =>
            LET a == request[r]
                h == Returns(r).s
                f == HeaderFields(h)
            IN  /\ Cardinality(IndicesOf(h, ":")) >= 3
                /\ f.scheme = "HMAC "
                /\ f.api_key = a.cred.api_key
                /\ Validates(h, a)
                /\ h = "HMAC " \o a.cred.api_key \o ":" \o f.signature \o ":"
                          \o f.nonce \o ":" \o f.timestamp
                /\ f.nonce \in {"uuid" \o ToString(k) : k \in 1..uuids}
                /\ f.timestamp \in {ToString(t) : t \in StartClock..now}

C11_Witness ==
    \E r \in Reqs :
        /\ Called(r, "_generate_auth_header")
        /\ request[r].body # ""
        /\ HeaderFields(Returns(r).s).nonce = "uuid2"
        /\ HeaderFields(Returns(r).s).timestamp = ToString(StartClock + 1)

\* C12, as stated: any two invocations of _generate_auth_header give headers with
\* a different nonce and a different timestamp, and each header validates with
\* its own nonce and timestamp.
C12_NonceAndTimestampDiffer ==
    \A r1, r2 \in Reqs :
        (r1 # r2 /\ Called(r1, "_generate_auth_header")
                 /\ Called(r2, "_generate_auth_header"))
        => LET f1 == HeaderFields(Returns(r1).s)
               f2 == HeaderFields(Returns(r2).s)
           IN  /\ f1.nonce # f2.nonce
               /\ f1.timestamp # f2.timestamp
               /\ Validates(Returns(r1).s, request[r1])
               /\ Validates(Returns(r2).s, request[r2])

\* C12, amended: any two invocations of _generate_auth_header give headers with
\* a different nonce (the timestamps, read off a millisecond clock, may be equal),
\* and each header validates with its own nonce and timestamp.
C12_NonceDiffers ==
    \A r1, r2 \in Reqs :
        (r1 # r2 /\ Called(r1, "_generate_auth_header")
                 /\ Called(r2, "_generate_auth_header"))
        => /\ HeaderFields(Returns(r1).s).nonce # HeaderFields(Returns(r2).s).nonce
           /\ Validates(Returns(r1).s, request[r1])
           /\ Validates(Returns(r2).s, request[r2])

C12_Witness ==
    \E r1, r2 \in Reqs :
        /\ r1 # r2
        /\ Called(r1, "_generate_auth_header")
        /\ Called(r2, "_generate_auth_header")
        /\ request[r1] = request[r2]
        /\ HeaderFields(Returns(r1).s).timestamp = HeaderFields(Returns(r2).s).timestamp
        /\ Returns(r1) # Returns(r2)

\* the arguments a and b of _generate_hmac_signature differ in the field named
DiffersIn(a, b) ==
    {k \in {"method", "path", "body", "api_secret"} :
        CASE k = "method" -> a.method # b.method
          [] k = "path" -> a.path # b.path
          [] k = "body" -> a.body # b.body
          [] k = "api_secret" -> a.cred.api_secret # b.cred.api_secret}

\* C13: with api_key, timestamp and nonce the same, two calls of
\* _generate_hmac_signature that differ in exactly one of method, path, body and
\* api_secret return different signatures.
C13_OneChangeChangesSignature ==
    \A r1, r2 \in Reqs :
        (/\ Called(r1, "_generate_hmac_signature")
         /\ Called(r2, "_generate_hmac_signature")
         /\ request[r1].cred.api_key = request[r2].cred.api_key
         /\ request[r1].timestamp = request[r2].timestamp
         /\ request[r1].nonce = request[r2].nonce
         /\ Cardinality(DiffersIn(request[r1], request[r2])) = 1)
        => Returns(r1) # Returns(r2)

C13_Witness ==
    \E r1, r2 \in Reqs :
        /\ Called(r1, "_generate_hmac_signature")
        /\ Called(r2, "_generate_hmac_signature")
        /\ DiffersIn(request[r1], request[r2]) = {"body"}
        /\ Returns(r1) # Returns(r2)

(***************************************************************************)
(* Properties of the requests on the wire.                                 *)
(***************************************************************************)
UpperLetters ==
    {"A", "B", "C", "D", "E", "F", "G", "H", "I", "J", "K", "L", "M",
     "N", "O", "P", "Q", "R", "S", "T", "U", "V", "W", "X", "Y", "Z"}

IsUpper(s) == \A j \in 1..Len(s) : SubSeq(s, j, j) \in UpperLetters

\* the path of a URL of the remote API: what follows the base URL
PathOf(url) == SubSeq(url, Len(BaseUrl) + 1, Len(url))

\* the body sent with the request w, '' when none is sent
SentBody(w) == IF IsNone(w.data) THEN "" ELSE Get(w.data)

\* C14: for every call of a public method of the client, the signed path is the
\* path of the request URL and holds no query string (the query parameters go
\* to requests as params only), and the signed method is the uppercase GET, POST
\* or DELETE used for the HTTP call.
C14_SignedPathHasNoQuery ==
    \A j \in 1..Len(wire) :
        j <= Len(api_log) =>
            LET w == wire[j]
                a == api_log[j]
            IN  /\ w.method \in {"GET", "POST", "DELETE"}
                /\ IsUpper(w.method)
                /\ StartsWith(w.url, BaseUrl)
                /\ IndicesOf(w.url, "?") = {}
                /\ w.params = a.params
                /\ Validates(w.headers.Authorization,
                             [cred |-> Credential, method |-> w.method,
                              path |-> PathOf(w.url), body |-> SentBody(w)])

C14_Witness ==
    \E j \in 1..Len(wire) :
        /\ route[api_log[j].by] = "VagonAPI.list_machines"
        /\ wire[j].params = Some(PageParams(2, 20, "dev"))
        /\ wire[j].url = BaseUrl \o "/organization-management/v1/machines"
        /\ wire[j].method = "GET"

(***************************************************************************)
(* The handling of a response by VagonAPI._request, for every response     *)
(* tried: the response is in request, the outcome of _request in response. *)
(***************************************************************************)
\* the status codes tried: successful ones, the ends of the error range, and
\* codes next to it
Statuses == {200, 204, 399, 400, 402, 404, 500, 502, 599, 600}

\* the JSON objects tried as bodies
ObjectBodies ==
    { JDict(<<>>),
      JDict(<< <<"message", JStr("Not enough funds")>>, <<"client_code", JInt(480)>> >>),
      JDict(<< <<"message", JStr("Not enough funds")>> >>),
      JDict(<< <<"error", JStr("Not found")>> >>),
      JDict(<< <<"error", JStr("Not found")>>, <<"client_code", JInt(481)>> >>),
      JDict(<< <<"error", JStr("Not found")>>, <<"message", JStr("No machine")>> >>),
      JDict(<< <<"message", JNull>>, <<"error", JStr("Not found")>> >>),
      JDict(<< <<"client_code", JInt(480)>> >>),
      JDict(<< <<"message", JStr("Not enough funds")>>, <<"client_code", JInt(0)>> >>),
      JDict(<< <<"message", JStr("Not enough funds")>>, <<"client_code", JNull>> >>),
      JDict(<< <<"id", JInt(1)>> >>) }

\* the bodies that are JSON, but not an object
OtherJsonBodies == { JList(<<>>), JList(<< JStr("Not found") >>), JStr("Not found") }

\* the bodies that are not JSON
TextBodies == { "", " Bad Gateway\n", " \n", "Not Found", "\tService <b>down</b>" }

RemoteAnswers ==
    {JsonResponse(status, v) : status \in Statuses, v \in ObjectBodies \cup OtherJsonBodies}
    \cup {TextResponse(status, text) : status \in Statuses, text \in TextBodies}

\* VagonAPI._request from the return of requests.request on
RequestReturns(r) ==
    /\ Returned(r, "_request", RequestOutcome(request[r]))
    /\ UNCHANGED <<now, uuids>>

ResponseInit ==
    /\ \E resp \in RemoteAnswers :
            request = [r \in Reqs |-> IF r \in Serial THEN resp ELSE JNull]
    /\ Constructed

ResponseNext == \E r \in Serial : RequestReturns(r)

ResponseSpec == ResponseInit /\ [][ResponseNext]_vars

\* the status of the response is in the error range
ErrorStatus(resp) == 400 <= resp.status_code /\ resp.status_code < 600

\* C15, as stated: for an error status s and a JSON object body, _request raises
\* VagonAPIError with status_code s, message body.message (else body.error, else
\* "Unknown error") and client_code body.client_code when the body has one,
\* otherwise s.
C15_ErrorFromJsonBody ==
    \A r \in Reqs :
        LET resp == request[r]
            body == resp.json
            out == Returns(r)
        IN  (Called(r, "_request") /\ ErrorStatus(resp)
                /\ resp.kind = "json" /\ body.t = "dict")
            => /\ out.raised
               /\ out.exc = "VagonAPIError"
               /\ out.error.status_code = resp.status_code
               /\ out.error.message =
                     (IF HasKey(body, "message") THEN DictGet(body, "message", JNull)
                      ELSE IF HasKey(body, "error") THEN DictGet(body, "error", JNull)
                      ELSE JStr("Unknown error"))
               /\ out.error.client_code =
                     (IF HasKey(body, "client_code")
                      THEN DictGet(body, "client_code", JNull)
                      ELSE JInt(resp.status_code))

\* C15, amended: as above, but client_code is body.client_code when the body has
\* one that is neither null nor zero (nor otherwise falsy), and s otherwise.
C15_ErrorFromJsonBodyTruthyCode ==
    \A r \in Reqs :
        LET resp == request[r]
            body == resp.json
            out == Returns(r)
        IN  (Called(r, "_request") /\ ErrorStatus(resp)
                /\ resp.kind = "json" /\ body.t = "dict")
            => /\ out.raised
               /\ out.exc = "VagonAPIError"
               /\ out.error.status_code = resp.status_code
               /\ out.error.message =
                     (IF HasKey(body, "message") THEN DictGet(body, "message", JNull)
                      ELSE IF HasKey(body, "error") THEN DictGet(body, "error", JNull)
                      ELSE JStr("Unknown error"))
               /\ out.error.client_code =
                     (IF HasKey(body, "client_code")
                            /\ DictGet(body, "client_code", JNull) \notin {JNull, JInt(0)}
                      THEN DictGet(body, "client_code", JNull)
                      ELSE JInt(resp.status_code))

C15_Witness ==
    \E r \in Reqs :
        /\ Called(r, "_request")
        /\ request[r] = JsonResponse(402,
               JDict(<< <<"message", JStr("Not enough funds")>>,
                        <<"client_code", JInt(480)>> >>))
        /\ Returns(r).error = [status_code |-> 402,
                               message |-> JStr("Not enough funds"),
                               client_code |-> JInt(480)]

\* m is text without the white space at its two ends
IsStripOf(m, text) ==
    \E i \in 1..(Len(text) + 1), j \in 0..Len(text) :
        /\ m = SubSeq(text, i, j)
        /\ \A k \in 1..Len(text) : (k < i \/ k > j) => IsSpace(SubSeq(text, k, k))
        /\ m # "" => ~IsSpace(SubSeq(m, 1, 1)) /\ ~IsSpace(SubSeq(m, Len(m), Len(m)))

\* C16: for an error status s and a body that is not JSON, _request raises
\* VagonAPIError with client_code = status_code = s and, as message, the response
\* text stripped of surrounding white space, or "HTTP <s> - No response body"
\* when nothing is left of it.
C16_ErrorFromTextBody ==
    \A r \in Reqs :
        LET resp == request[r]
            out == Returns(r)
        IN  (Called(r, "_request") /\ ErrorStatus(resp) /\ resp.kind = "text")
            => /\ out.raised
               /\ out.exc = "VagonAPIError"
               /\ out.error.status_code = resp.status_code
               /\ out.error.client_code = JInt(resp.status_code)
               /\ out.error.message.t = "str"
               /\ IF IsStripOf("", resp.text)
                  THEN out.error.message.s
                         = "HTTP " \o ToString(resp.status_code) \o " - No response body"
                  ELSE IsStripOf(out.error.message.s, resp.text)

C16_Witness ==
    \E r \in Reqs :
        /\ Called(r, "_request")
        /\ request[r] = TextResponse(502, " Bad Gateway\n")
        /\ Returns(r).error = [status_code |-> 502, message |-> JStr("Bad Gateway"),
                               client_code |-> JInt(502)]

\* C17: every failure of upload_file (no file, create_file rejected, no upload
\* URLs, a chunk PUT that raised or was refused, complete_upload rejected) is
\* answered with an error envelope that carries a message, a client_code and a
\* status_code.
C17_UploadErrorEnvelope ==
    \A r \in Reqs :
        (route[r] = "upload_file" /\ RepliedError(r))
        => LET body == Get(response[r]).body
           IN  /\ body.t = "dict"
               /\ HasKey(body, "error")
               /\ HasKey(body, "client_code")
               /\ HasKey(body, "status_code")

(***************************************************************************)
(* flatten_jsonapi_resource called for every resource tried: the resource  *)
(* is in request, the value returned (or the exception raised) in response.*)
(***************************************************************************)
\* {'id': id, 'type': type, 'attributes': attributes}
Resource(id, type, attributes) ==
    JDict(<< <<"id", JStr(id)>>, <<"type", JStr(type)>>, <<"attributes", attributes>> >>)

\* the values tried for the attribute 'user' (and 'machine')
NestedValues ==
    { Resource("7", "user", JDict(<< <<"name", JStr("bob")>> >>)),
      Resource("7", "user", JDict(<<>>)),
      Resource("7", "user",
               JDict(<< <<"machine", Resource("8", "machine",
                                              JDict(<< <<"name", JStr("m")>> >>))>> >>)),
      Resource("7", "user", JList(<< JInt(1) >>)),
      JDict(<< <<"id", JStr("7")>> >>),
      JStr("bob"),
      JNull }

\* the values tried for the attribute 'softwares'
SoftwaresValues ==
    { JDict(<< <<"data", JList(<< Resource("1", "software",
                                           JDict(<< <<"name", JStr("Blender")>> >>)),
                                  Resource("2", "software",
                                           JDict(<< <<"name", JStr("Unity")>> >>)) >>)>> >>),
      JDict(<< <<"data", JList(<<>>)>> >>),
      JDict(<< <<"data", JList(<< JNull, Resource("2", "software", JDict(<<>>)) >>)>> >>),
      JDict(<< <<"data", JList(<< JStr("Blender") >>)>> >>),
      JDict(<< <<"data", JStr("Blender")>> >>),
      JDict(<< <<"data", JNull>> >>),
      JDict(<<>>),
      JList(<< JStr("Blender") >>),
      JNull }

\* the values tried for 'attributes' that are not a mapping
MalformedAttributes ==
    { JList(<<>>), JList(<< JInt(1) >>), JList(<< JStr("ab") >>),
      JList(<< JList(<< JStr("name"), JStr("A") >>) >>),
      JList(<< JList(<< JStr("name") >>) >>),
      JStr(""), JStr("ab"), JInt(0), JInt(5), JBool(TRUE), JNull }

\* the resources tried
FlattenInputs ==
    { JNull, JDict(<<>>),
      JDict(<< <<"id", JStr("1")>> >>),
      JDict(<< <<"id", JStr("1")>>, <<"type", JStr("seat")>> >>),
      Resource("1", "seat", JDict(<<>>)),
      Resource("1", "seat", JDict(<< <<"name", JStr("A")>> >>)),
      Resource("1", "seat", JDict(<< <<"name", JStr("A")>>, <<"cores", JInt(4)>>,
                                     <<"active", JBool(TRUE)>>, <<"note", JNull>> >>)),
      Resource("1", "seat", JDict(<< <<"id", JStr("9")>>, <<"name", JStr("A")>> >>)) }
    \cup {Resource("1", "seat", a) : a \in MalformedAttributes}
    \cup {Resource("1", "seat", JDict(<< <<"machine", m>> >>)) : m \in NestedValues}
    \cup {Resource("1", "seat",
                    JDict(<< <<"name", JStr("A")>>, <<"user", u>>, <<"softwares", sw>> >>))
             : u \in NestedValues, sw \in SoftwaresValues}

\* flatten_jsonapi_resource(resource)
FlattenCall(r) ==
    /\ Returned(r, "flatten_jsonapi_resource", FlattenJsonapiResource(request[r]))
    /\ UNCHANGED <<now, uuids>>

(***************************************************************************)
(* flatten_jsonapi_resource and flatten_jsonapi_list called twice on one   *)
(* argument that the caller holds by reference: the caller reads the       *)
(* argument and its objects before the calls and after them.               *)
(***************************************************************************)
\* flatten_jsonapi_list(items) on the heap h
FlattenJsonapiListOn(h, items) == FlattenListOn(h, Peek(h, items).xs, <<>>)

\* what the caller sees of the argument v: its value read in depth, and the
\* objects it is made of (the first n of the heap)
Seen(h, v, n) == [argument |-> Load(h, v), objects |-> SubSeq(h, 1, n)]

\* what the caller of two calls observes
Observed(built, first, second) ==
    [t |-> "calls",
     before |-> Seen(built.h, built.v, Len(built.h)),
     after |-> Seen(second.h, built.v, Len(built.h)),
     first |-> Load(second.h, first.v),
     second |-> Load(second.h, second.v)]

\* a = flatten_jsonapi_resource(x); b = flatten_jsonapi_resource(x)
FlattenTwiceCall(r) ==
    LET built == Store(<<>>, request[r])
        first == FlattenResourceOn(built.h, built.v)
        second == FlattenResourceOn(first.h, built.v)
    IN  /\ Returned(r, "flatten_jsonapi_resource twice", Observed(built, first, second))
        /\ UNCHANGED <<now, uuids>>

\* items = [x, x]; a = flatten_jsonapi_list(items); b = flatten_jsonapi_list(items)
FlattenListTwiceCall(r) ==
    LET x == Store(<<>>, request[r])
        built == New(x.h, JList(<<x.v, x.v>>))
        first == FlattenJsonapiListOn(built.h, built.v)
        second == FlattenJsonapiListOn(first.h, built.v)
    IN  /\ Returned(r, "flatten_jsonapi_list twice", Observed(built, first, second))
        /\ UNCHANGED <<now, uuids>>

FlattenInit ==
    /\ \E resource \in FlattenInputs :
            request = [r \in Reqs |-> IF r \in Serial THEN resource ELSE JNull]
    /\ Constructed

FlattenNext ==
    \E r \in Serial :
        \/ FlattenCall(r)
        \/ FlattenTwiceCall(r)
        \/ FlattenListTwiceCall(r)

FlattenSpec == FlattenInit /\ [][FlattenNext]_vars

\* the keys of a dict
Keys(d) == {d.kv[j][1] : j \in 1..Len(d.kv)}

\* a value that is not a container
PlainValue(v) == v.t \in {"null", "int", "str", "bool"}

\* a resource {id, type, attributes: A} with A a mapping of plain values
IsPlainResource(x) ==
    /\ x.t = "dict"
    /\ {"id", "type", "attributes"} \subseteq Keys(x)
    /\ DictGet(x, "attributes", JNull).t = "dict"
    /\ \A k \in Keys(DictGet(x, "attributes", JNull)) :
            PlainValue(DictGet(DictGet(x, "attributes", JNull), k, JNull))

\* C18: flatten_jsonapi_resource returns {} for None and for {}; for a resource
\* {id, type, attributes: A} with A a mapping of plain values it returns one
\* mapping whose keys are id, type and the keys of A, with the values of A (and
\* the resource's id and type where A has no such key); the resource
\* {"id":"1","type":"seat","attributes":{"name":"A"}} gives
\* {"id":"1","type":"seat","name":"A"}.
C18_FlattenMergesAttributes ==
    \A r \in Reqs :
        Called(r, "flatten_jsonapi_resource") =>
            LET x == request[r]
                f == Returns(r)
                A == DictGet(x, "attributes", JNull)
            IN  /\ x \in {JNull, JDict(<<>>)} => f = JDict(<<>>)
                /\ IsPlainResource(x) =>
                      /\ f.t = "dict"
                      /\ Keys(f) = {"id", "type"} \cup Keys(A)
                      /\ Len(f.kv) = Cardinality(Keys(f))
                      /\ \A k \in Keys(A) : DictGet(f, k, JNull) = DictGet(A, k, JNull)
                      /\ \A k \in {"id", "type"} \ Keys(A) :
                            DictGet(f, k, JNull) = DictGet(x, k, JNull)
                /\ x = Resource("1", "seat", JDict(<< <<"name", JStr("A")>> >>))
                      => f = JDict(<< <<"id", JStr("1")>>, <<"type", JStr("seat")>>,
                                      <<"name", JStr("A")>> >>)

C18_Witness ==
    \E r \in Reqs :
        /\ Called(r, "flatten_jsonapi_resource")
        /\ request[r] = Resource("1", "seat", JDict(<< <<"name", JStr("A")>> >>))
        /\ Returns(r) = JDict(<< <<"id", JStr("1")>>, <<"type", JStr("seat")>>,
                                 <<"name", JStr("A")>> >>)

\* C19: flatten_jsonapi_resource raises for no mapping: whatever its
\* 'attributes' value and the items of its nested 'softwares.data' list are, it
\* returns a mapping.
C19_FlattenNeverRaises ==
    \A r \in Reqs :
        (Called(r, "flatten_jsonapi_resource") /\ request[r].t = "dict")
        => Returns(r).t = "dict"

\* C20: in the result of flatten_jsonapi_resource an attribute 'user' or
\* 'machine' that is a mapping with an 'attributes' key is its own flattened
\* form, an attribute 'softwares' that is a mapping is the list of the flattened
\* resources of its 'data' list in the same order ([] when 'data' is no list),
\* and every other attribute is the value it had.
C20_NestedFlattened ==
    \A r \in Reqs :
        LET x == request[r]
            f == Returns(r)
            A == DictGet(x, "attributes", JNull)
        IN  (Called(r, "flatten_jsonapi_resource") /\ x.t = "dict" /\ A.t = "dict"
                /\ A.kv # <<>> /\ f.t = "dict")
            => \A k \in Keys(A) :
                LET v == DictGet(A, k, JNull)
                    data == DictGet(v, "data", JList(<<>>))
                IN  DictGet(f, k, JNull) =
                      IF k \in {"user", "machine"} /\ v.t = "dict" /\ HasKey(v, "attributes")
                      THEN FlattenJsonapiResource(v)
                      ELSE IF k = "softwares" /\ v.t = "dict"
                      THEN (IF data.t = "list"
                            THEN JList([i \in 1..Len(data.xs) |->
                                           FlattenJsonapiResource(data.xs[i])])
                            ELSE JList(<<>>))
                      ELSE v

C20_Witness ==
    \E r \in Reqs :
        /\ Called(r, "flatten_jsonapi_resource")
        /\ request[r].t = "dict"
        /\ DictGet(request[r], "attributes", JNull).t = "dict"
        /\ DictGet(DictGet(request[r], "attributes", JNull), "user", JNull)
             = Resource("7", "user",
                        JDict(<< <<"machine", Resource("8", "machine",
                                     JDict(<< <<"name", JStr("m")>> >>))>> >>))
        /\ Returns(r) =
             JDict(<< <<"id", JStr("1")>>, <<"type", JStr("seat")>>,
                      <<"name", JStr("A")>>,
                      <<"user", JDict(<< <<"id", JStr("7")>>, <<"type", JStr("user")>>,
                            <<"machine", JDict(<< <<"id", JStr("8")>>,
                                                  <<"type", JStr("machine")>>,
                                                  <<"name", JStr("m")>> >>)>> >>)>>,
                      <<"softwares", JList(<<
                            JDict(<< <<"id", JStr("1")>>, <<"type", JStr("software")>>,
                                     <<"name", JStr("Blender")>> >>),
                            JDict(<< <<"id", JStr("2")>>, <<"type", JStr("software")>>,
                                     <<"name", JStr("Unity")>> >>) >>)>> >>)

\* C21: flatten_jsonapi_resource and flatten_jsonapi_list leave their argument
\* as it was: after two calls the argument read in depth (its 'attributes'
\* mapping and the nested 'user', 'machine' and 'softwares' values with it) and
\* every object it is made of are what they were before the calls, and the two
\* calls return equal values (or raise the same exception).
C21_FlattenLeavesArgument ==
    \A r \in Reqs :
        (Called(r, "flatten_jsonapi_resource twice")
            \/ Called(r, "flatten_jsonapi_list twice"))
        => /\ Returns(r).after = Returns(r).before
           /\ Returns(r).first = Returns(r).second

C21_Witness ==
    \E r \in Reqs :
        /\ Called(r, "flatten_jsonapi_resource twice")
        /\ request[r] =
             Resource("1", "seat",
                 JDict(<< <<"name", JStr("A")>>,
                          <<"user", Resource("7", "user", JDict(<< <<"name", JStr("bob")>> >>))>>,
                          <<"softwares",
                            JDict(<< <<"data", JList(<<
                               Resource("1", "software", JDict(<< <<"name", JStr("Blender")>> >>)),
                               Resource("2", "software", JDict(<< <<"name", JStr("Unity")>> >>))
                               >>)>> >>)>> >>))
        /\ Returns(r).after.argument = request[r]
        /\ Returns(r).first = FlattenJsonapiResource(request[r])
        /\ DictGet(Returns(r).first, "user", JNull)
             = JDict(<< <<"id", JStr("7")>>, <<"type", JStr("user")>>,
                        <<"name", JStr("bob")>> >>)
        /\ Returns(r).second = Returns(r).first

(***************************************************************************)
(* format_bytes called for every size tried: the size is in request, the   *)
(* string returned in response.                                            *)
(***************************************************************************)
\* the digits tried: 128/1024 and 384/1024 are halfway between two hundredths
DigitsTried == {0, 1, 128, 384, 512, 1023}

\* the sizes tried: up to six digits in base 1024, below 2^53
SizeInputs ==
    UNION { { ds \in [1..n -> DigitsTried] :
                /\ n > 1 => ds[n] # 0
                /\ n = 6 => ds[n] < 8 } : n \in 1..6 }

\* format_bytes(size)
FormatBytesCall(r) ==
    /\ Returned(r, "format_bytes", JStr(FormatBytes(request[r])))
    /\ UNCHANGED <<now, uuids>>

FormatInit ==
    /\ \E size \in SizeInputs :
            request = [r \in Reqs |-> IF r \in Serial THEN size ELSE <<0>>]
    /\ Constructed

FormatNext == \E r \in Serial : FormatBytesCall(r)

FormatSpec == FormatInit /\ [][FormatNext]_vars

\* a + b + carry
RECURSIVE PlusCarry(_, _, _)
PlusCarry(a, b, carry) ==
    IF Len(a) = 0 /\ Len(b) = 0 THEN (IF carry = 0 THEN <<>> ELSE <<carry>>)
    ELSE LET t == (IF Len(a) = 0 THEN 0 ELSE a[1]) + (IF Len(b) = 0 THEN 0 ELSE b[1])
                  + carry
         IN  <<t % 1024>> \o PlusCarry(SubSeq(a, 2, Len(a)), SubSeq(b, 2, Len(b)),
                                       t \div 1024)

Plus(a, b) == Norm(PlusCarry(a, b, 0))

\* ds * 1024^k
Shift(ds, k) == Norm([j \in 1..k |-> 0] \o ds)

\* how many times a size can be divided by 1024 before it is below 1024
RECURSIVE Divisions(_)
Divisions(ds) == IF Len(ds) <= 1 THEN 0 ELSE 1 + Divisions(SubSeq(ds, 2, Len(ds)))

UnitNames == <<"B", "KB", "MB", "GB", "TB", "PB">>

ConcurrentStep(r) ==
    \/ /\ UploadFile(r)
       /\ pc'[r] = "create_file"
       /\ file_size'[r] = 3 * SizeUnit
       /\ content_type'[r] = "text/plain"
       /\ ~HasKey(Get(api_log'[Len(api_log')].body), "machine_id")
    \/ /\ UploadCreated(r)
       /\ pc'[r] = "put" => Len(upload_urls'[r].xs) = 2
    \/ UploadChunkPut(r)
    \/ UploadCompleted(r)

ConcurrentNext == (\E r \in Reqs : ConcurrentStep(r)) /\ now' = now

ConcurrentSpec == Init /\ [][ConcurrentNext]_vars

\* a PUT that ended with an ETag
IsPutEndWithEtag(e) == IsPutEnd(e) /\ ~IsNone(e.etag) /\ Get(e.etag) # ""

\* the part records of the ETags the PUTs of request r returned, in order
OwnParts(r) ==
    LET given == SelectSeq(trace[r], IsPutEndWithEtag)
    IN  [k \in 1..Len(given) |-> PartRecord(given[k].idx, Get(given[k].etag))]

\* the complete_upload calls among the _request invocations of request r
CompleteCallsBy(r) ==
    {j \in CallsOf(r) :
        StartsWith(api_log[j].path, "/organization-management/v1/files/")}

\* C23: when two upload_file requests run at once, in any interleaving of their
\* steps, the complete_upload call of each carries the part records of the ETags
\* its own PUTs returned, in order, and the file id the remote gave to its own
\* create_file call (which is not the other request's); every request sent is
\* signed with the one api_key and api_secret of the client.
C23_RequestsShareNothing ==
    /\ \A r \in Reqs : \A j \in CompleteCallsBy(r) :
          /\ api_log[j].path
               = CompleteUploadPath(JInt(RemoteFileId(SetMin(CallsOf(r)))))
          /\ DictGet(Get(api_log[j].body), "parts", JNull) = JList(OwnParts(r))
          /\ \A q \in Reqs \ {r} : \A k \in CompleteCallsBy(q) :
                api_log[k].path # api_log[j].path
    /\ \A j \in 1..Len(wire) :
          /\ HeaderFields(wire[j].headers.Authorization).api_key = Credential.api_key
          /\ Validates(wire[j].headers.Authorization,
                       [cred |-> Credential, method |-> wire[j].method,
                        path |-> PathOf(wire[j].url), body |-> SentBody(wire[j])])

C23_Witness ==
    /\ \A r \in Reqs : pc[r] = "done" /\ Get(response[r]).status = 200
    /\ Len(api_log) = 4
    /\ api_log[1].by # api_log[2].by
    /\ OwnParts(1) = << PartRecord(0, "\"e1\""), PartRecord(1, "\"e1\"") >>
    /\ OwnParts(2) = << PartRecord(0, "\"e2\""), PartRecord(1, "\"e2\"") >>
    /\ \E j \in CompleteCallsBy(1) :
          DictGet(Get(api_log[j].body), "parts", JNull) = JList(OwnParts(1))
    /\ \E j \in CompleteCallsBy(2) :
          DictGet(Get(api_log[j].body), "parts", JNull) = JList(OwnParts(2))

\* every remote call the request r saw end, ended well
NoRemoteFailure(r) ==
    \A j \in 1..Len(trace[r]) : trace[r][j].ev = "end" => trace[r][j].ok

\* C24: GET /api/machines and the index page, for any combination of the query
\* parameters page, per_page, q, time_left, has_session_data and status, call
\* list_machines of the client, and when the remote API does not reject the call
\* they answer 200, /api/machines with machines, count, page and next_page.
C24_ListMachinesServed ==
    \A r \in Reqs :
        (route[r] \in ListMachinesRoutes /\ pc[r] = "done" /\ NoRemoteFailure(r))
        => /\ CallsOf(r) # {}
           /\ Get(response[r]).status = 200
           /\ route[r] = "api_list_machines" =>
                 {"machines", "count", "page", "next_page"}
                    \subseteq Keys(Get(response[r]).body)

\* C25: POST /api/machines/<id>/permissions with a JSON body that has a
\* non-empty 'permissions' mapping makes a request to the remote API, and
\* answers {success: true} when the remote API does not reject it.
C25_PermissionsUpdated ==
    \A r \in Reqs :
        LET permissions == DictGet(JsonOrEmpty(request[r]), "permissions", JNull)
        IN  (route[r] = "update_machine_permissions" /\ pc[r] = "done"
                /\ permissions.t = "dict" /\ Truthy(permissions)
                /\ NoRemoteFailure(r))
            => /\ CallsOf(r) # {}
               /\ Get(response[r]).status = 200
               /\ DictGet(Get(response[r]).body, "success", JNull) = JBool(TRUE)

\* C26: VagonAPI._request raises VagonAPIError exactly when the status of the
\* response is not successful; on a successful status it raises nothing and
\* returns the parsed JSON body, or {} when the body is empty or is no JSON.
C26_RaisesIffNotOk ==
    \A r \in Reqs :
        Called(r, "_request") =>
            LET resp == request[r]
                out == Returns(r)
            IN  /\ (out.raised /\ out.exc = "VagonAPIError") <=> ~ResponseOk(resp)
                /\ ResponseOk(resp) =>
                      /\ ~out.raised
                      /\ out.value = IF resp.kind = "json" THEN resp.json ELSE JDict(<<>>)

\* the PUTs of request r that ended well
PutsDone(r) == {j \in 1..Len(trace[r]) : IsPutEnd(trace[r][j]) /\ trace[r][j].ok}

\* the loop of upload_file is over for request r: every upload URL was PUT to,
\* and every PUT ended well
LoopOver(r) ==
    /\ route[r] = "upload_file"
    /\ Len(upload_urls[r].xs) > 0
    /\ Cardinality(PutsDone(r)) = Len(upload_urls[r].xs)

\* the positions of the trace of request r where complete_upload ended in an error
CompleteRejected(r) ==
    {j \in 1..Len(trace[r]) : trace[r][j].ev = "end" /\ trace[r][j].op = "complete_upload"
                              /\ ~trace[r][j].ok}

\* C27: when the loop of upload_file is over with fewer ETags collected than
\* chunks PUT, complete_upload is called once, with the shorter parts list; when
\* that call is rejected, the request ends there with the error envelope
\* (error, client_code, status_code and an error status): complete_upload is
\* not called again and no chunk is PUT again.
C27_ShortPartsCompleted ==
    \A r \in Reqs :
        (LoopOver(r) /\ Len(OwnParts(r)) < Len(puts[r]))
        => /\ Cardinality(CompleteCallsBy(r)) = 1
           /\ \A j \in CompleteCallsBy(r) :
                 /\ DictGet(Get(api_log[j].body), "parts", JNull) = JList(OwnParts(r))
                 /\ Len(DictGet(Get(api_log[j].body), "parts", JNull).xs)
                       < Len(upload_urls[r].xs)
           /\ Cardinality(Positions(r, Started("complete_upload", 0))) = 1
           /\ \A j \in CompleteRejected(r) :
                 /\ j = Len(trace[r])
                 /\ pc[r] = "done"
                 /\ Get(response[r]).status >= 400
                 /\ Keys(Get(response[r]).body) = {"error", "client_code", "status_code"}
                 /\ Len(puts[r]) = Len(upload_urls[r].xs)

C27_Witness ==
    \E r \in Reqs :
        /\ LoopOver(r)
        /\ Len(upload_urls[r].xs) = 2
        /\ OwnParts(r) = << PartRecord(1, "\"e1\"") >>
        /\ CompleteRejected(r) # {}
        /\ \E j \in CompleteCallsBy(r) :
              DictGet(Get(api_log[j].body), "parts", JNull)
                 = JList(<< PartRecord(1, "\"e1\"") >>)
        /\ pc[r] = "done"
        /\ Get(response[r]).status = 402
        /\ DictGet(Get(response[r]).body, "client_code", JNull) = JInt(480)

\* C28: whenever upload_file calls complete_upload, the chunks it PUT, in index
\* order, are the whole file content, whatever the number of upload URLs
\* create_file returned, and no PUT carried an empty chunk.
C28_ChunksAreTheFile ==
    \A r \in Reqs :
        CompleteCallsOf(r) # {} =>
            /\ puts[r][1].chunk.lo = 0
            /\ \A k \in 2..Len(puts[r]) : puts[r][k].chunk.lo = puts[r][k - 1].chunk.hi
            /\ puts[r][Len(puts[r])].chunk.hi = file_size[r]
            /\ \A k \in 1..Len(puts[r]) : puts[r][k].chunk.lo < puts[r][k].chunk.hi

(***************************************************************************)
(* _generate_hmac_signature called by two callers of one client, with      *)
(* timestamps and nonces of their own choice.                              *)
(***************************************************************************)
\* the arguments tried: timestamps of 13 and of 12 digits (2023 and 1992 in
\* ms), paths of the same length, and a path that is another path followed by
\* a digit
CanonicalInputs ==
    [cred : {Credential},
     method : {"GET", "POST"},
     path : {"/organization-management/v1/files",
             "/organization-management/v1/files/7",
             "/organization-management/v1/files/8",
             "/organization-management/v1/files/71"},
     timestamp : {"1700000000000", "700000000000"},
     nonce : {Uuid4(0), Uuid4(1)},
     body : {"", "{\"size\": 7}"}]

CanonicalInit ==
    /\ request \in [Reqs -> CanonicalInputs]
    /\ Constructed

CanonicalNext == \E r \in Reqs : GenerateHmacSignatureCall(r)

CanonicalSpec == CanonicalInit /\ [][CanonicalNext]_vars

\* the tuple (method, path, timestamp, nonce, body) of the arguments a
FieldsOf(a) == << a.method, a.path, a.timestamp, a.nonce, a.body >>

\* the fields in which the tuples s and t differ
FieldsApart(s, t) == {k \in 1..Len(s) : s[k] # t[k]}

\* every field of s is as long as the same field of t
SameLengths(s, t) == \A k \in 1..Len(s) : Len(s[k]) = Len(t[k])

\* both callers called _generate_hmac_signature on the same client
BothSigned(r1, r2) ==
    /\ Called(r1, "_generate_hmac_signature")
    /\ Called(r2, "_generate_hmac_signature")
    /\ request[r1].cred = request[r2].cred

\* C29: for a fixed api_key (and secret) two different tuples (method, path,
\* timestamp, nonce, body) never give the same canonical string, that is, never
\* the same signature; in particular not two tuples with the same timestamp
\* and nonce.
C29_CanonicalInjective ==
    \A r1, r2 \in Reqs :
        (BothSigned(r1, r2) /\ FieldsOf(request[r1]) # FieldsOf(request[r2]))
        => Returns(r1) # Returns(r2)

\* C29, amended: two different tuples give different signatures when they
\* differ in one field only or when their fields have the same lengths, one by
\* one; and two tuples with the same timestamp and nonce, and methods and paths
\* of the same lengths, give different signatures when they differ.
C29_InjectiveAtEqualLengths ==
    \A r1, r2 \in Reqs :
        LET s == FieldsOf(request[r1])
            t == FieldsOf(request[r2])
        IN  (/\ BothSigned(r1, r2)
             /\ s # t
             /\ \/ Cardinality(FieldsApart(s, t)) = 1
                \/ SameLengths(s, t)
                \/ /\ s[3] = t[3] /\ s[4] = t[4]
                   /\ Len(s[1]) = Len(t[1]) /\ Len(s[2]) = Len(t[2]))
            => Returns(r1) # Returns(r2)

C29_Witness ==
    \E r1, r2 \in Reqs :
        /\ BothSigned(r1, r2)
        /\ FieldsApart(FieldsOf(request[r1]), FieldsOf(request[r2])) = {2, 4}
        /\ SameLengths(FieldsOf(request[r1]), FieldsOf(request[r2]))
        /\ request[r1].path = "/organization-management/v1/files/7"
        /\ request[r2].path = "/organization-management/v1/files/8"
        /\ Returns(r1) # Returns(r2)

\* C30: for every non-empty resource the 'id' and 'type' entries of the result
\* of flatten_jsonapi_resource are the resource's own top-level id and type,
\* whatever the keys of its 'attributes' mapping (keys 'id' and 'type' included).
C30_IdAndTypeKept ==
    \A r \in Reqs :
        (/\ Called(r, "flatten_jsonapi_resource")
         /\ request[r].t = "dict"
         /\ Truthy(request[r])
         /\ Returns(r).t = "dict")
        => /\ DictGet(Returns(r), "id", JNull) = DictGet(request[r], "id", JNull)
           /\ DictGet(Returns(r), "type", JNull) = DictGet(request[r], "type", JNull)

====
